---- MODULE Spec2Model ----
(***************************************************************************)
(* Hybrid decision engine of the workflow simulations: the fraud analyzer   *)
(* (fraud_detection_system/fraud_analyzer.py) as a state machine.  One      *)
(* evaluation, analyze_transaction, runs the rule engine, builds the        *)
(* prompt, calls the advisory endpoint with retries, parses the response    *)
(* and merges both verdicts.                                                *)
(*                                                                          *)
(* Scores are Python floats in the source.  Every score of the model is an  *)
(* integer number of hundredths of a point (Pts(25) = 2500), which          *)
(* represents all the products the code forms (x * 0.7, x * 0.8, x * 0.6,   *)
(* x * 0.4, x * 0.3, x / 2) exactly.                                        *)
(***************************************************************************)
EXTENDS Integers, Sequences, FiniteSets, TLC

\* ------------------------------------------------------------------------
\* Numbers

Pts(n) == n * 100

Min(a, b) == IF a <= b THEN a ELSE b

Max(a, b) == IF a >= b THEN a ELSE b

\* ------------------------------------------------------------------------
\* Python strings that the code searches or lower-cases are sequences of
\* one-character strings.

UpperChars ==
    <<"A", "B", "C", "D", "E", "F", "G", "H", "I", "J", "K", "L", "M",
      "N", "O", "P", "Q", "R", "S", "T", "U", "V", "W", "X", "Y", "Z">>

LowerChars ==
    <<"a", "b", "c", "d", "e", "f", "g", "h", "i", "j", "k", "l", "m",
      "n", "o", "p", "q", "r", "s", "t", "u", "v", "w", "x", "y", "z">>

\* str.lower() of one character
LowerChar(c) ==
    IF \E i \in 1..Len(UpperChars) : UpperChars[i] = c
    THEN LowerChars[CHOOSE i \in 1..Len(UpperChars) : UpperChars[i] = c]
    ELSE c

\* str.lower()
Lower(s) == [i \in 1..Len(s) |-> LowerChar(s[i])]

\* needle in hay (substring test of Python's `in` on two strings)
Contains(needle, hay) ==
    \E i \in 0..(Len(hay) - Len(needle)) :
        SubSeq(hay, i + 1, i + Len(needle)) = needle

Str_London == <<"L", "o", "n", "d", "o", "n", ",", " ", "U", "K">>

Str_Paris == <<"P", "a", "r", "i", "s", ",", " ", "F", "r", "a", "n", "c", "e">>

Str_Tokyo == <<"T", "o", "k", "y", "o", ",", " ", "J", "a", "p", "a", "n">>

Str_Sydney ==
    <<"S", "y", "d", "n", "e", "y", ",", " ",
      "A", "u", "s", "t", "r", "a", "l", "i", "a">>

Str_UnknownLocation ==
    <<"U", "n", "k", "n", "o", "w", "n", " ",
      "L", "o", "c", "a", "t", "i", "o", "n">>

Str_ForeignLocation ==
    <<"F", "o", "r", "e", "i", "g", "n", " ",
      "L", "o", "c", "a", "t", "i", "o", "n">>

Str_unknown == <<"u", "n", "k", "n", "o", "w", "n">>

Str_na == <<"n", "/", "a">>

Str_empty == <<>>

Str_NewYork == <<"N", "e", "w", " ", "Y", "o", "r", "k">>

\* ------------------------------------------------------------------------
\* FraudAnalyzer.__init__: the rule table

high_amount == 5000

very_high_amount == 10000

amount_weight == 25

foreign_countries == <<Str_London, Str_Paris, Str_Tokyo, Str_Sydney>>

high_risk_locations == <<Str_UnknownLocation, Str_ForeignLocation>>

location_weight == 20

\* unusual_hours: [(23, 6)], 11 PM to 6 AM
unusual_start_hour == 23

unusual_end_hour == 6

time_weight == 10

high_risk_categories == {"wire_transfer", "luxury", "electronics"}

medium_risk_categories == {"online", "atm"}

merchant_weight == 15

max_retries == 3

fraud_patterns ==
    << [name |-> "card_testing",
        indicators |-> <<"multiple_small_amounts", "short_time_window">>,
        risk_score |-> 80],
       [name |-> "account_takeover",
        indicators |-> <<"foreign_location", "high_amount", "unusual_merchant">>,
        risk_score |-> 90],
       [name |-> "synthetic_identity",
        indicators |-> <<"new_account", "high_amount", "limited_history">>,
        risk_score |-> 85],
       [name |-> "money_laundering",
        indicators |-> <<"structured_amounts", "frequent_transfers", "round_amounts">>,
        risk_score |-> 95] >>

\* ------------------------------------------------------------------------
\* Python values of the feature map
\*   amount:   [type |-> "float", val |-> dollars]
\*             [type |-> "str", val |-> dollars, numeric |-> whether float() accepts it]
\*   location: [type |-> "str", chars |-> characters] or [type |-> "NoneType", ...]

Range(s) == {s[i] : i \in 1..Len(s)}

\* float(x): defined on numbers and on numeric strings, raises otherwise
FloatRaises(x) == x.type = "str" /\ ~x.numeric

\* format(x, ',.2f'): defined on numbers only; a str raises ValueError
FormatRaises(x) == x.type # "float"

\* one rule outcome: points, and the indicator tags appended (in order)
Outcome(score, tags) == [score |-> score, tags |-> tags]

AddIf_no_tag(cond, o, points, tag) ==
    IF cond THEN Outcome(o.score + points, o.tags) ELSE o

\* a rule that fires adds its points and appends its indicator tag
AddIf(cond, o, points, tag) ==
    IF cond THEN Outcome(o.score + points, Append(o.tags, tag)) ELSE o

\* _analyze_amount
_analyze_amount(amount) ==
    LET band ==
            IF amount >= very_high_amount
            THEN Outcome(Pts(amount_weight), <<"very_high_amount">>)
            ELSE IF amount >= high_amount
                 THEN Outcome((Pts(amount_weight) * 7) \div 10, <<"high_amount">>)
                 ELSE Outcome(0, <<>>)
        round == AddIf(amount % 1000 = 0 /\ amount >= 1000, band, Pts(5), "round_amount")
    IN  AddIf(9000 <= amount /\ amount < 10000, round, Pts(15), "structured_amount")

\* _analyze_location, for a location that is a str
_analyze_location(location) ==
    LET low == Lower(location)
        foreign ==
            AddIf(\E i \in 1..Len(foreign_countries) :
                      Contains(Lower(foreign_countries[i]), low),
                  Outcome(0, <<>>), Pts(location_weight), "foreign_location")
        risky ==
            AddIf(\E i \in 1..Len(high_risk_locations) :
                      Contains(Lower(high_risk_locations[i]), low),
                  foreign, (Pts(location_weight) * 8) \div 10, "high_risk_location")
    IN  AddIf(location = Str_empty \/ low \in {Str_unknown, Str_na, Str_empty},
              risky, Pts(10), "unknown_location")

\* _analyze_time_patterns, on the hour and weekday of the timestamp
_analyze_time_patterns(hour, weekday) ==
    LET unusual ==
            IF unusual_start_hour > unusual_end_hour
            THEN hour >= unusual_start_hour \/ hour <= unusual_end_hour
            ELSE unusual_start_hour <= hour /\ hour <= unusual_end_hour
        hours == AddIf(unusual, Outcome(0, <<>>), Pts(time_weight), "unusual_hours")
    IN  AddIf(weekday >= 5, hours, Pts(5), "weekend_transaction")

\* _analyze_merchant_category
_analyze_merchant_category(category) ==
    IF category \in high_risk_categories
    THEN Outcome(Pts(merchant_weight), <<"high_risk_merchant">>)
    ELSE IF category \in medium_risk_categories
         THEN Outcome((Pts(merchant_weight) * 6) \div 10, <<"medium_risk_merchant">>)
         ELSE Outcome(0, <<>>)

\* _analyze_transaction_type
_analyze_transaction_type(transaction_type, amount) ==
    IF transaction_type = "transfer"
    THEN AddIf(amount >= 5000, Outcome(Pts(15), <<"wire_transfer">>),
               Pts(10), "large_wire_transfer")
    ELSE IF transaction_type = "withdrawal" /\ amount >= 1000
         THEN Outcome(Pts(10), <<"large_withdrawal">>)
         ELSE Outcome(0, <<>>)

\* _analyze_velocity_patterns
_analyze_velocity_patterns(transaction) ==
    AddIf(transaction.customer_risk_profile = "high",
          AddIf(transaction.is_suspicious_template, Outcome(0, <<>>),
                Pts(20), "suspicious_pattern"),
          Pts(15), "high_risk_customer")

\* the indicator tag of a matched pattern, f"pattern_{name}"
PatternTag(name) == "pattern_" \o name

\* the matches counted for one pattern
PatternMatches(pattern, amount, location, merchant_category, transaction_type) ==
    LET has(tag) == tag \in Range(pattern.indicators)
        one(b) == IF b THEN 1 ELSE 0
    IN  one(has("high_amount") /\ amount >= 5000)
        + one(has("foreign_location")
              /\ \E kw \in {<<"U", "K">>, <<"F", "r", "a", "n", "c", "e">>,
                            <<"J", "a", "p", "a", "n">>,
                            <<"A", "u", "s", "t", "r", "a", "l", "i", "a">>} :
                     Contains(kw, location))
        + one(has("unusual_merchant") /\ merchant_category \in {"luxury", "electronics"})
        + one(has("wire_transfer") /\ transaction_type = "transfer")

\* _analyze_fraud_patterns: the patterns in table order, from index i on
RECURSIVE PatternsFrom(_, _, _, _, _, _)
PatternsFrom(i, o, amount, location, merchant_category, transaction_type) ==
    IF i > Len(fraud_patterns) THEN o
    ELSE LET p == fraud_patterns[i]
             m == PatternMatches(p, amount, location, merchant_category, transaction_type)
         IN  PatternsFrom(i + 1,
                          \* matches >= len(pattern_indicators) * 0.6
                          AddIf(m * 10 >= Len(p.indicators) * 6, o,
                                (Pts(p.risk_score) * 3) \div 10, PatternTag(p.name)),
                          amount, location, merchant_category, transaction_type)

_analyze_fraud_patterns(transaction) ==
    PatternsFrom(1, Outcome(0, <<>>), transaction.amount.val, transaction.location.chars,
                 transaction.merchant_category, transaction.transaction_type)

\* the RiskFactor sentence appended together with an indicator tag
RiskFactor(tag) == "factor: " \o tag

RiskFactors(tags) == [i \in 1..Len(tags) |-> RiskFactor(tags[i])]

RuleRiskLevel_strict(fraud_score) ==
    IF fraud_score > Pts(80) THEN "high"
    ELSE IF fraud_score > Pts(50) THEN "medium"
    ELSE IF fraud_score > Pts(30) THEN "low"
    ELSE "very_low"

\* the risk level and fraud status of a rule score (the if/elif chain of
\* _rule_based_analysis, on the uncapped sum)
RuleRiskLevel(fraud_score) ==
    IF fraud_score >= Pts(80) THEN "high"
    ELSE IF fraud_score >= Pts(50) THEN "medium"
    ELSE IF fraud_score >= Pts(30) THEN "low"
    ELSE "very_low"

RuleIsFraud(fraud_score) == fraud_score >= Pts(50)

CapScore_uncapped(fraud_score) == fraud_score

\* 'fraud_score': min(100, fraud_score)
CapScore(fraud_score) == Min(Pts(100), fraud_score)

\* 'confidence': min(95, fraud_score + 10)
RuleConfidence(fraud_score) == Min(Pts(95), fraud_score + Pts(10))

\* _generate_rule_explanation: the score, the headline and the top 3 factors
_generate_rule_explanation(fraud_score, risk_factors) ==
    [kind |-> "rule",
     score |-> fraud_score,
     headline |-> IF fraud_score >= Pts(80) THEN "HIGH RISK"
                  ELSE IF fraud_score >= Pts(50) THEN "MEDIUM RISK"
                  ELSE IF fraud_score >= Pts(30) THEN "LOW RISK"
                  ELSE "VERY LOW RISK",
     factors |-> SubSeq(risk_factors, 1, Min(3, Len(risk_factors)))]

\* the statements of the try block that can raise: float(amount), and
\* location.lower() in _analyze_location
RuleEngineRaises(transaction) ==
    FloatRaises(transaction.amount) \/ transaction.location.type # "str"

\* the verdict of the except branch of _rule_based_analysis.  It has no
\* risk_factors and no score_breakdown key: every reader uses .get(key, []).
ErrorVerdict ==
    [fraud_score |-> Pts(50),
     risk_level |-> "medium",
     is_fraud |-> TRUE,
     fraud_indicators |-> <<"analysis_error">>,
     risk_factors |-> <<>>,
     explanation |-> [kind |-> "error", score |-> 0, headline |-> "Error in fraud analysis",
                      factors |-> <<>>],
     confidence |-> 0,
     analysis_method |-> "error",
     score_breakdown |-> <<>>]

\* _rule_based_analysis.  now is datetime.now(), read when the transaction
\* carries no timestamp or one that does not parse.
_rule_based_analysis(transaction, now) ==
    IF RuleEngineRaises(transaction) THEN ErrorVerdict
    ELSE
    LET amount == transaction.amount.val
        timestamp == IF transaction.timestamp.kind = "iso"
                     THEN transaction.timestamp ELSE now
        a == _analyze_amount(amount)
        l == _analyze_location(transaction.location.chars)
        t == _analyze_time_patterns(timestamp.hour, timestamp.weekday)
        m == _analyze_merchant_category(transaction.merchant_category)
        y == _analyze_transaction_type(transaction.transaction_type, amount)
        v == _analyze_velocity_patterns(transaction)
        p == _analyze_fraud_patterns(transaction)
        fraud_score == a.score + l.score + t.score + m.score + y.score + v.score + p.score
        fraud_indicators == a.tags \o l.tags \o t.tags \o m.tags \o y.tags \o v.tags \o p.tags
        risk_factors == RiskFactors(fraud_indicators)
    IN  [fraud_score |-> CapScore(fraud_score),
         risk_level |-> RuleRiskLevel(fraud_score),
         is_fraud |-> RuleIsFraud(fraud_score),
         fraud_indicators |-> fraud_indicators,
         risk_factors |-> risk_factors,
         explanation |-> _generate_rule_explanation(fraud_score, risk_factors),
         confidence |-> RuleConfidence(fraud_score),
         analysis_method |-> "rule_based",
         score_breakdown |-> <<a.score, l.score, t.score, m.score, y.score, v.score, p.score>>]

\* _create_fraud_analysis_prompt raises where a format specification does not
\* fit its value: {transaction.get('amount', 0):,.2f} on an amount that is a str
PromptRaises(transaction, rule_result) == FormatRaises(transaction.amount)

\* ------------------------------------------------------------------------
\* The advisory response.  A decoded JSON object is
\*   [keys |-> the keys it has,
\*    is_fraud |-> truthiness of its value,
\*    fraud_score, confidence |-> a number or a string (as amount above),
\*    risk_level |-> a string,
\*    fraud_indicators, risk_factors |->
\*        [type |-> "list", items |-> the elements, truthy, text] or
\*        [type |-> "scalar", truthy |-> bool(x), text |-> str(x), items]]
\* A list element that is not hashable (a JSON object or array) is Unhashable.

Unhashable == "<dict>"

required_fields == {"is_fraud", "fraud_score", "risk_level", "explanation"}

valid_risk_levels == {"very_low", "low", "medium", "high", "critical"}

\* the value _get_ai_analysis returns when no attempt produced a verdict (None)
NoAiResult ==
    [success |-> FALSE, keys |-> {}, is_fraud |-> FALSE, fraud_score |-> 0,
     risk_level |-> "", explanation |-> "", confidence |-> 0,
     fraud_indicators |-> <<>>, risk_factors |-> <<>>]

\* max(0, min(100, float(x))) on a value float() accepts
Clamp100(x) == Max(0, Min(Pts(100), Pts(x.val)))

\* "Ensure lists are actually lists": a value that is no list becomes
\* [str(x)] when truthy and [] otherwise
AsList(v) ==
    IF v.type = "list" THEN v.items
    ELSE IF v.truthy THEN <<v.text>> ELSE <<>>

ValidateAndNormalize_lenient(obj) ==
    [success |-> TRUE,
     keys |-> obj.keys,
     is_fraud |-> obj.is_fraud,
     fraud_score |-> IF FloatRaises(obj.fraud_score) THEN 0 ELSE Clamp100(obj.fraud_score),
     risk_level |-> IF obj.risk_level \in valid_risk_levels THEN obj.risk_level ELSE "medium",
     explanation |-> obj.explanation,
     confidence |-> 0,
     fraud_indicators |-> <<>>,
     risk_factors |-> <<>>]

\* _parse_ai_response on the decoded object: None (NoAiResult) when a
\* required field is missing or a conversion raises, else the normalized object
ValidateAndNormalize(obj) ==
    IF ~(required_fields \subseteq obj.keys) THEN NoAiResult
    ELSE IF FloatRaises(obj.fraud_score) THEN NoAiResult
    ELSE IF "confidence" \in obj.keys /\ FloatRaises(obj.confidence) THEN NoAiResult
    ELSE [success |-> TRUE,
          keys |-> obj.keys,
          is_fraud |-> obj.is_fraud,
          fraud_score |-> Clamp100(obj.fraud_score),
          risk_level |-> IF obj.risk_level \in valid_risk_levels
                         THEN obj.risk_level ELSE "medium",
          explanation |-> obj.explanation,
          confidence |-> IF "confidence" \in obj.keys THEN Clamp100(obj.confidence) ELSE 0,
          fraud_indicators |-> IF "fraud_indicators" \in obj.keys
                               THEN AsList(obj.fraud_indicators) ELSE <<>>,
          risk_factors |-> IF "risk_factors" \in obj.keys
                           THEN AsList(obj.risk_factors) ELSE <<>>]

\* _parse_ai_response: the text, trimmed to its outermost braces, decodes to
\* an object or json.loads raises
_parse_ai_response(text) ==
    IF text.decodes THEN ValidateAndNormalize(text.obj) ELSE NoAiResult

\* the elements of a sequence, each once, in order of first occurrence
RECURSIVE Dedup(_)
Dedup(s) ==
    IF s = <<>> THEN <<>>
    ELSE LET init == Dedup(SubSeq(s, 1, Len(s) - 1))
             last == s[Len(s)]
         IN  IF last \in Range(init) THEN init ELSE Append(init, last)

\* list(set(s)): the elements of s, each once, in the iteration order of the
\* set, which depends on the hashes of the elements (for strings, on the hash
\* seed of the process).  The orders of the model are the rotations of the
\* order of first occurrence, one per hash seed.
ListOfSet(s, hash_seed) ==
    LET d == Dedup(s)
        n == Len(d)
    IN  [i \in 1..n |-> d[((i - 1 + hash_seed) % n) + 1]]

\* the risk level of a combined score (the if/elif chain of _combine_ai_and_rules)
CombinedRiskLevel(combined_score) ==
    IF combined_score >= Pts(85) THEN "critical"
    ELSE IF combined_score >= Pts(70) THEN "high"
    ELSE IF combined_score >= Pts(50) THEN "medium"
    ELSE IF combined_score >= Pts(30) THEN "low"
    ELSE "very_low"

CombinedScore_swapped(ai_score, rule_score) == (ai_score * 4 + rule_score * 6) \div 10

\* (ai_score * 0.6) + (rule_score * 0.4)
CombinedScore(ai_score, rule_score) == (ai_score * 6 + rule_score * 4) \div 10

\* set(ai_list + rule_list) raises TypeError on an element that is not hashable
CombineRaises(ai_result) ==
    Unhashable \in Range(ai_result.fraud_indicators)
    \/ Unhashable \in Range(ai_result.risk_factors)

\* The verdict analyze_transaction returns.  list_order tells how the two lists
\* are ordered: "insertion" (the rule engine's appends) or "hash" (list(set(..)),
\* the iteration order of a set of strings).
RuleVerdictAs(rule_result, method) ==
    [fraud_score |-> rule_result.fraud_score,
     risk_level |-> rule_result.risk_level,
     is_fraud |-> rule_result.is_fraud,
     fraud_indicators |-> rule_result.fraud_indicators,
     risk_factors |-> rule_result.risk_factors,
     list_order |-> "insertion",
     confidence |-> rule_result.confidence,
     combined_confidence |-> 0,
     analysis_method |-> method,
     ai_score |-> 0,
     rule_score |-> 0]

\* _combine_ai_and_rules
_combine_ai_and_rules(ai_result, rule_result, hash_seed) ==
    IF CombineRaises(ai_result) THEN RuleVerdictAs(rule_result, "rule_based_fallback")
    ELSE
    LET ai_score == ai_result.fraud_score
        rule_score == rule_result.fraud_score
        combined_score == CombinedScore(ai_score, rule_score)
        ai_confidence == ai_result.confidence
        rule_confidence == rule_result.confidence
    IN  [fraud_score |-> combined_score,
         risk_level |-> CombinedRiskLevel(combined_score),
         is_fraud |-> combined_score >= Pts(50)
                      \/ (ai_result.is_fraud /\ rule_score >= Pts(30)),
         fraud_indicators |->
             ListOfSet(ai_result.fraud_indicators \o rule_result.fraud_indicators,
                       hash_seed),
         risk_factors |->
             ListOfSet(ai_result.risk_factors \o rule_result.risk_factors, hash_seed),
         list_order |-> "hash",
         confidence |-> ai_confidence,
         combined_confidence |-> (ai_confidence + rule_confidence) \div 2,
         analysis_method |-> "ai_enhanced",
         ai_score |-> ai_score,
         rule_score |-> rule_score]

\* ------------------------------------------------------------------------
\* The inputs of the model

\* the advisory response may carry any number as its score: -50, 0, 50, ...
MaxAiScoreStep == 4

\* the hash seeds of the process, one iteration order of a set each
MaxHashSeed == 2

HashSeeds == 0..MaxHashSeed

Float(v) == [type |-> "float", val |-> v, numeric |-> TRUE]

NumericStr(v) == [type |-> "str", val |-> v, numeric |-> TRUE]

NonNumericStr == [type |-> "str", val |-> 0, numeric |-> FALSE]

Amounts ==
    {Float(v) : v \in {50, 5000, 9500, 10000}} \cup {NumericStr(50), NonNumericStr}

Locations ==
    {[type |-> "str", chars |-> c] :
        c \in {Str_NewYork, Str_Tokyo, Str_UnknownLocation, Str_empty}}
    \cup {[type |-> "NoneType", chars |-> <<>>]}

NoTimestamp == [kind |-> "absent", hour |-> 0, weekday |-> 0]

Timestamps == {NoTimestamp, [kind |-> "iso", hour |-> 3, weekday |-> 5]}

\* the values datetime.now() may give
Clock == {[kind |-> "now", hour |-> 12, weekday |-> 2],
          [kind |-> "now", hour |-> 23, weekday |-> 6]}

Transactions ==
    [amount : Amounts,
     location : Locations,
     merchant_category : {"grocery", "electronics", "online", "wire_transfer"},
     transaction_type : {"purchase", "transfer", "withdrawal"},
     timestamp : Timestamps,
     is_suspicious_template : BOOLEAN,
     customer_risk_profile : {"low", "high"}]

NoTransaction ==
    [amount |-> Float(0), location |-> [type |-> "str", chars |-> <<>>],
     merchant_category |-> "", transaction_type |-> "", timestamp |-> NoTimestamp,
     is_suspicious_template |-> FALSE, customer_risk_profile |-> ""]

List(items) == [type |-> "list", items |-> items, truthy |-> items # <<>>, text |-> ""]

Scalar(text, truthy) == [type |-> "scalar", items |-> <<>>, truthy |-> truthy, text |-> text]

AllKeys ==
    required_fields \cup {"confidence", "fraud_indicators", "risk_factors"}

AiRawScores == {50 * k - 50 : k \in 0..MaxAiScoreStep}

\* a well-formed object, and objects that differ from it in one respect
BaseObject ==
    [keys |-> AllKeys, is_fraud |-> FALSE, fraud_score |-> Float(50),
     risk_level |-> "low", explanation |-> "velocity above profile",
     confidence |-> Float(80),
     fraud_indicators |-> List(<<"velocity_anomaly", "high_amount">>),
     risk_factors |-> List(<<"factor: velocity">>)]

AiObjects ==
    {[BaseObject EXCEPT !.fraud_score = Float(v), !.is_fraud = f, !.fraud_indicators = i] :
        v \in AiRawScores, f \in BOOLEAN,
        i \in {List(<<"velocity_anomaly", "high_amount">>), List(<<>>),
                List(<<Unhashable>>)}}
    \cup {[BaseObject EXCEPT !.keys = AllKeys \ {k}] :
            k \in {"explanation", "confidence", "fraud_indicators", "risk_factors"}}
    \cup {[BaseObject EXCEPT !.fraud_score = NonNumericStr],
          [BaseObject EXCEPT !.confidence = NonNumericStr],
          [BaseObject EXCEPT !.confidence = Float(150)],
          [BaseObject EXCEPT !.risk_level = "banana"],
          [BaseObject EXCEPT !.fraud_indicators = Scalar("velocity_anomaly", TRUE)],
          [BaseObject EXCEPT !.fraud_indicators = Scalar("0", FALSE)],
          [BaseObject EXCEPT !.risk_factors = List(<<Unhashable>>)]}

\* what one requests.post call gives: an exception (connection error or
\* timeout), or a response with a status code; a 200 body has a 'response'
\* key or not, and its text decodes to an object or not
Responses ==
    {[kind |-> "exception", status |-> 0, has_response |-> FALSE,
      text |-> [decodes |-> FALSE, obj |-> BaseObject]],
     [kind |-> "http", status |-> 500, has_response |-> FALSE,
      text |-> [decodes |-> FALSE, obj |-> BaseObject]],
     [kind |-> "http", status |-> 200, has_response |-> FALSE,
      text |-> [decodes |-> FALSE, obj |-> BaseObject]],
     [kind |-> "http", status |-> 200, has_response |-> TRUE,
      text |-> [decodes |-> FALSE, obj |-> BaseObject]]}
    \cup {[kind |-> "http", status |-> 200, has_response |-> TRUE,
           text |-> [decodes |-> TRUE, obj |-> o]] : o \in AiObjects}

\* ------------------------------------------------------------------------
\* Trade finance (trade_finance_workflow/trade_finance.py,
\* document_processor.py).  Strings are TLA+ strings; credit scores are in
\* hundredths of a point like the fraud scores.

\* str.lower() on a string, character by character
RECURSIVE LowerStr(_)
LowerStr(s) ==
    IF Len(s) = 0 THEN s
    ELSE LowerChar(SubSeq(s, 1, 1)) \o LowerStr(SubSeq(s, 2, Len(s)))

\* any(word in text for word in words)
AnyIn(words, text) == \E i \in 1..Len(words) : Contains(words[i], text)

low_risk_industries == <<"technology", "healthcare", "education", "utilities">>

medium_risk_industries == <<"manufacturing", "retail", "services", "agriculture">>

high_risk_industries == <<"oil", "mining", "construction", "entertainment">>

low_risk_countries ==
    <<"united states", "canada", "germany", "japan", "australia", "uk", "france">>

medium_risk_countries ==
    <<"china", "india", "brazil", "mexico", "south korea", "italy", "spain">>

\* get_credit_rating
get_credit_rating(score) ==
    IF score >= Pts(90) THEN "AAA"
    ELSE IF score >= Pts(85) THEN "AA"
    ELSE IF score >= Pts(80) THEN "A"
    ELSE IF score >= Pts(70) THEN "BBB"
    ELSE IF score >= Pts(60) THEN "BB"
    ELSE IF score >= Pts(50) THEN "B"
    ELSE IF score >= Pts(40) THEN "CCC"
    ELSE IF score >= Pts(30) THEN "CC"
    ELSE IF score >= Pts(20) THEN "C"
    ELSE "D"

\* the points get_rule_based_credit_assessment adds, factor by factor
RevenuePoints(revenue) ==
    IF revenue >= 10000000 THEN 25
    ELSE IF revenue >= 5000000 THEN 20
    ELSE IF revenue >= 1000000 THEN 15
    ELSE IF revenue >= 500000 THEN 10
    ELSE 5

YearsPoints(years) ==
    IF years >= 10 THEN 20
    ELSE IF years >= 5 THEN 15
    ELSE IF years >= 2 THEN 10
    ELSE 5

CreditHistoryPoints(credit_history) ==
    IF Contains("excellent", credit_history) THEN 20
    ELSE IF Contains("good", credit_history) THEN 15
    ELSE IF Contains("fair", credit_history) THEN 10
    ELSE IF Contains("poor", credit_history) THEN 5
    ELSE 10

\* ratio = finance_amount / revenue, compared with 0.1, 0.25 and 0.5
RatioPoints(finance_amount, revenue) ==
    IF revenue > 0
    THEN IF finance_amount * 10 <= revenue THEN 15
         ELSE IF finance_amount * 4 <= revenue THEN 12
         ELSE IF finance_amount * 2 <= revenue THEN 8
         ELSE 3
    ELSE 5

IndustryPoints(industry) ==
    IF AnyIn(low_risk_industries, industry) THEN 10
    ELSE IF AnyIn(medium_risk_industries, industry) THEN 7
    ELSE IF AnyIn(high_risk_industries, industry) THEN 4
    ELSE 6

CountryPoints(country) ==
    IF AnyIn(low_risk_countries, country) THEN 10
    ELSE IF AnyIn(medium_risk_countries, country) THEN 7
    ELSE 4

\* the assessment both fallbacks of the credit step return: no score
CreditErrorFallback ==
    [success |-> FALSE, credit_score |-> 0, rating |-> "Unknown",
     method |-> "error_fallback", ai_credit_score |-> 0, rule_credit_score |-> 0]

\* get_rule_based_credit_assessment: float(annual_revenue) raises on a
\* string that is no number, and the except branch answers
get_rule_based_credit_assessment(application) ==
    IF FloatRaises(application.annual_revenue) THEN CreditErrorFallback
    ELSE
    LET revenue == application.annual_revenue.val
        score == RevenuePoints(revenue)
                 + YearsPoints(application.years_in_business)
                 + CreditHistoryPoints(LowerStr(application.credit_history))
                 + RatioPoints(application.finance_amount, revenue)
                 + IndustryPoints(LowerStr(application.industry))
                 + CountryPoints(LowerStr(application.counterparty_country))
    IN  [success |-> TRUE, credit_score |-> Pts(score),
         rating |-> get_credit_rating(Pts(score)), method |-> "rule_based",
         ai_credit_score |-> 0, rule_credit_score |-> Pts(score)]

\* what get_ai_credit_assessment returns when it has no assessment
NoAiAssessment == [success |-> FALSE, credit_score |-> 0]

\* get_ai_credit_assessment on the response of its one requests.post call.
\* The prompt formats annual_revenue with ',.2f' inside the try block, so a
\* revenue that is a str ends the call before the request.  The credit score
\* is float(ai_result.get('credit_score', 0)), not clamped.
get_ai_credit_assessment(application, resp) ==
    IF FormatRaises(application.annual_revenue) THEN NoAiAssessment
    ELSE IF resp.kind # "http" \/ resp.status # 200 THEN NoAiAssessment
    ELSE IF ~resp.has_response \/ ~resp.text.decodes THEN NoAiAssessment
    ELSE LET obj == resp.text.obj
         IN  IF "credit_score" \notin obj.keys
             THEN [success |-> TRUE, credit_score |-> 0]
             ELSE IF FloatRaises(obj.credit_score) THEN NoAiAssessment
             ELSE [success |-> TRUE, credit_score |-> Pts(obj.credit_score.val)]

\* ai credit_score * 0.7 + rule credit_score * 0.3
HybridScore(ai_score, rule_score) == (ai_score * 7 + rule_score * 3) \div 10

\* assess_credit
assess_credit(application, resp) ==
    LET ai_assessment == get_ai_credit_assessment(application, resp)
        rule_assessment == get_rule_based_credit_assessment(application)
    IN  IF ai_assessment.success
        THEN LET combined_score ==
                     HybridScore(ai_assessment.credit_score, rule_assessment.credit_score)
             IN  [success |-> TRUE, credit_score |-> combined_score,
                  rating |-> get_credit_rating(combined_score), method |-> "hybrid",
                  ai_credit_score |-> ai_assessment.credit_score,
                  rule_credit_score |-> rule_assessment.credit_score]
        ELSE rule_assessment

\* verify_documents: the AI verification when it succeeds (its
\* verification_score is passed on as it came), else the rule verification,
\* whose score is (average of the verified documents + additional checks) / 2
verify_documents(ai, rules) ==
    IF ai.success
    THEN [success |-> TRUE, score |-> ai.score, method |-> "ai_powered"]
    ELSE [success |-> TRUE,
          score |-> Float((rules.average + rules.additional) \div 2),
          method |-> "rule_based"]

\* check_compliance on the four random draws (fractions in hundredths)
check_compliance(draw) ==
    LET compliance_score ==
            draw.kyc_score * 30
            + (IF draw.sanctions_clear THEN Pts(25) ELSE 0)
            + draw.trade_compliance * 25
            + draw.doc_completeness * 20
        issues ==
            (IF draw.kyc_score < 80 THEN {"kyc"} ELSE {})
            \cup (IF draw.sanctions_clear THEN {} ELSE {"sanctions"})
            \cup (IF draw.doc_completeness < 90 THEN {"documentation"} ELSE {})
    IN  [success |-> TRUE,
         compliance_score |-> compliance_score,
         status |-> IF compliance_score >= Pts(85) /\ issues = {} THEN "compliant"
                    ELSE IF compliance_score >= Pts(70) THEN "conditional"
                    ELSE "non_compliant"]

\* analyze_risk on the five random draws (fractions in hundredths)
analyze_risk(draw) ==
    LET risk_score ==
            draw.market * 25 + draw.credit * 30 + draw.operational * 20
            + draw.country * 15 + draw.currency * 10
    IN  [success |-> TRUE,
         risk_score |-> risk_score,
         risk_level |-> IF risk_score <= Pts(25) THEN "very_low"
                        ELSE IF risk_score <= Pts(40) THEN "low"
                        ELSE IF risk_score <= Pts(60) THEN "medium"
                        ELSE IF risk_score <= Pts(80) THEN "high"
                        ELSE "very_high"]

\* round(x, 2) of a value given in 1/10000 of a point, in hundredths
Round2(x) ==
    LET q == x \div 100
        r == x % 100
    IN  IF r > 50 THEN q + 1
        ELSE IF r < 50 THEN q
        ELSE IF q % 2 = 0 THEN q ELSE q + 1

\* the weighted sum of make_final_decision, in 1/10000 of a point
WeightedFinal(doc_score, credit_score, compliance_score, risk_score) ==
    doc_score * 20 + credit_score * 40 + compliance_score * 25 + risk_score * 15

\* a decision logic that looks at the score and never at the status
TradeDecision_score_only(final_score, status) ==
    IF final_score >= Pts(80) * 100 THEN "approved"
    ELSE IF final_score >= Pts(65) * 100 THEN "conditional_approval"
    ELSE IF final_score >= Pts(50) * 100 THEN "manual_review"
    ELSE "rejected"

\* the decision logic of make_final_decision on the unrounded final score
\* (in 1/10000 of a point) and the compliance status
TradeDecision(final_score, status) ==
    IF final_score >= Pts(80) * 100 /\ status = "compliant" THEN "approved"
    ELSE IF final_score >= Pts(65) * 100 /\ status \in {"compliant", "conditional"}
         THEN "conditional_approval"
    ELSE IF final_score >= Pts(50) * 100 THEN "manual_review"
    ELSE "rejected"

\* the weighted final score of make_final_decision before it is rounded, in
\* 1/10000 of a point; a sub-result without success counts 0
UnroundedFinal(doc, credit, compliance, risk) ==
    WeightedFinal(IF doc.success THEN Pts(doc.score.val) ELSE 0,
                  IF credit.success THEN credit.credit_score ELSE 0,
                  IF compliance.success THEN compliance.compliance_score ELSE 0,
                  IF risk.success THEN Pts(100) - risk.risk_score ELSE 0)

\* make_final_decision.  A document score that is a str makes doc_score * 0.2
\* raise, and the except branch answers manual_review with final_score 0.
make_final_decision(doc, credit, compliance, risk) ==
    IF doc.success /\ doc.score.type # "float"
    THEN [decision |-> "manual_review", final_score |-> 0, error |-> TRUE]
    ELSE
    LET final_score == UnroundedFinal(doc, credit, compliance, risk)
    IN  [decision |-> TradeDecision(final_score, compliance.status),
         final_score |-> Round2(final_score),
         error |-> FALSE]

\* the applications of the model
Applications ==
    [annual_revenue : {Float(10000000), Float(100000), NumericStr(5000000), NonNumericStr},
     years_in_business : {1, 10},
     credit_history : {"Excellent", "Poor"},
     finance_amount : {1000000},
     industry : {"Technology", "Mining"},
     counterparty_country : {"Germany", "Nigeria"}]

NoApplication ==
    [annual_revenue |-> Float(0), years_in_business |-> 0, credit_history |-> "",
     finance_amount |-> 0, industry |-> "", counterparty_country |-> ""]

\* the decoded objects of the credit advisory: any number as credit_score,
\* a credit_score that is no number, or none
TradeAiObjects ==
    {[keys |-> {"credit_score"}, credit_score |-> Float(v)] : v \in AiRawScores}
    \cup {[keys |-> {"credit_score"}, credit_score |-> NonNumericStr],
          [keys |-> {}, credit_score |-> Float(0)]}

TradeResponses ==
    {[kind |-> "exception", status |-> 0, has_response |-> FALSE,
      text |-> [decodes |-> FALSE, obj |-> [keys |-> {}, credit_score |-> Float(0)]]],
     [kind |-> "http", status |-> 500, has_response |-> FALSE,
      text |-> [decodes |-> FALSE, obj |-> [keys |-> {}, credit_score |-> Float(0)]]],
     [kind |-> "http", status |-> 200, has_response |-> TRUE,
      text |-> [decodes |-> FALSE, obj |-> [keys |-> {}, credit_score |-> Float(0)]]]}
    \cup {[kind |-> "http", status |-> 200, has_response |-> TRUE,
           text |-> [decodes |-> TRUE, obj |-> o]] : o \in TradeAiObjects}

\* verify_documents_ai: no verification, or one with the verification_score
\* the advisory gave (a number, or a string)
DocAiOutcomes ==
    {[success |-> FALSE, score |-> Float(0)],
     [success |-> TRUE, score |-> Float(40)],
     [success |-> TRUE, score |-> Float(100)],
     [success |-> TRUE, score |-> NumericStr(90)]}

\* verify_documents_rules: the average score of the verified documents and
\* the score of the additional checks
DocRuleDraws ==
    {[average |-> 0, additional |-> 0], [average |-> 80, additional |-> 100],
     [average |-> 100, additional |-> 100]}

\* random.uniform(0.7, 1.0), random.choice([True, True, True, False]),
\* random.uniform(0.8, 1.0), random.uniform(0.7, 1.0), in hundredths
ComplianceDraws ==
    [kyc_score : {70, 100}, sanctions_clear : BOOLEAN,
     trade_compliance : {100}, doc_completeness : {70, 100}]

\* random.uniform(0.1, 0.8), (0.1, 0.7), (0.1, 0.6), (0.1, 0.9), (0.1, 0.5)
RiskDraws ==
    {[market |-> 10, credit |-> 10, operational |-> 10, country |-> 10, currency |-> 10],
     [market |-> 80, credit |-> 70, operational |-> 60, country |-> 90, currency |-> 49]}

\* ------------------------------------------------------------------------
\* The raw text of an advisory response and its three parsers:
\* FraudAnalyzer._parse_ai_response, CreditScoring._parse_ai_response
\* (loan_application_processing/credit_scoring.py) and
\* LLMScreening._parse_screening_result
\* (20250207_bank_payment_cursor/llm_screening.py).  All three trim the text
\* with the same statements.

Whitespace == {" ", "\n", "\t"}

\* str.strip()
RECURSIVE Strip(_)
Strip(s) ==
    IF Len(s) = 0 THEN s
    ELSE IF SubSeq(s, 1, 1) \in Whitespace THEN Strip(SubSeq(s, 2, Len(s)))
    ELSE IF SubSeq(s, Len(s), Len(s)) \in Whitespace THEN Strip(SubSeq(s, 1, Len(s) - 1))
    ELSE s

\* str.find(c) and str.rfind(c) for a character c: a 0-based index, or -1
Find(s, c) ==
    IF \E i \in 1..Len(s) : SubSeq(s, i, i) = c
    THEN (CHOOSE i \in 1..Len(s) :
              /\ SubSeq(s, i, i) = c
              /\ \A j \in 1..(i - 1) : SubSeq(s, j, j) # c) - 1
    ELSE -1

RFind(s, c) ==
    IF \E i \in 1..Len(s) : SubSeq(s, i, i) = c
    THEN (CHOOSE i \in 1..Len(s) :
              /\ SubSeq(s, i, i) = c
              /\ \A j \in (i + 1)..Len(s) : SubSeq(s, j, j) # c) - 1
    ELSE -1

\* the slices s[i:] and s[:j] of Python, i and j 0-based, a negative i
\* counting from the end
SliceFrom(s, i) ==
    IF i >= 0 THEN SubSeq(s, i + 1, Len(s)) ELSE SubSeq(s, Max(Len(s) + i, 0) + 1, Len(s))

SliceTo(s, j) == SubSeq(s, 1, Min(Max(j, 0), Len(s)))

\* "Clean up the response text": strip, then cut before the first '{' and
\* after the last '}'
TrimToBraces(response_text) ==
    LET stripped == Strip(response_text)
        from_brace == IF Len(stripped) > 0 /\ SubSeq(stripped, 1, 1) = "{"
                      THEN stripped
                      ELSE SliceFrom(stripped, Find(stripped, "{"))
    IN  IF Len(from_brace) > 0 /\ SubSeq(from_brace, Len(from_brace), Len(from_brace)) = "}"
        THEN from_brace
        ELSE SliceTo(from_brace, RFind(from_brace, "}") + 1)

\* JSON values: a number is Float(v), a string that float() rejects is
\* Text(s), true and false are Bool(b)
Text(s) == [type |-> "str", val |-> 0, numeric |-> FALSE, text |-> s]

Bool(b) == [type |-> "bool", val |-> IF b THEN 1 ELSE 0, numeric |-> TRUE]

\* bool(x)
Truthy(x) == IF x.type = "str" THEN x.text # "" ELSE x.val # 0

\* str(x) of a string
TextOf(x) == IF x.type = "str" THEN x.text ELSE "<number>"

\* json.loads: the object texts the model uses and the objects they decode
\* to; json.loads raises JSONDecodeError on every other text
JsonTexts ==
    << [text |-> "{\"is_fraud\":true,\"fraud_score\":150,\"risk_level\":\"banana\",\"explanation\":\"why {x}\"}",
        obj |-> [is_fraud |-> Bool(TRUE), fraud_score |-> Float(150),
                 risk_level |-> Text("banana"), explanation |-> Text("why {x}")]],
       [text |-> "{\"is_fraud\":false,\"fraud_score\":40,\"risk_level\":\"low\",\"explanation\":\"fine\"}",
        obj |-> [is_fraud |-> Bool(FALSE), fraud_score |-> Float(40),
                 risk_level |-> Text("low"), explanation |-> Text("fine")]],
       [text |-> "{\"is_fraud\":true,\"fraud_score\":\"high\",\"risk_level\":\"high\",\"explanation\":\"bad\"}",
        obj |-> [is_fraud |-> Bool(TRUE), fraud_score |-> Text("high"),
                 risk_level |-> Text("high"), explanation |-> Text("bad")]],
       [text |-> "{\"is_fraud\":true,\"fraud_score\":150,\"risk_level\":\"banana\"}",
        obj |-> [is_fraud |-> Bool(TRUE), fraud_score |-> Float(150),
                 risk_level |-> Text("banana")]],
       [text |-> "{\"is_fraud\":true,\"risk_level\":\"high\",\"explanation\":\"x\"}",
        obj |-> [is_fraud |-> Bool(TRUE), risk_level |-> Text("high"),
                 explanation |-> Text("x")]],
       [text |-> "{\"approved\":true,\"status\":\"MAYBE\",\"risk_level\":\"banana\",\"reason\":\"r\",\"confidence_score\":150}",
        obj |-> [approved |-> Bool(TRUE), status |-> Text("MAYBE"),
                 risk_level |-> Text("banana"), reason |-> Text("r"),
                 confidence_score |-> Float(150)]],
       [text |-> "{\"approved\":true,\"status\":\"APPROVED\",\"risk_level\":\"low\",\"reason\":\"solid\"}",
        obj |-> [approved |-> Bool(TRUE), status |-> Text("APPROVED"),
                 risk_level |-> Text("low"), reason |-> Text("solid")]],
       [text |-> "{\"approved\":true,\"status\":\"MAYBE\",\"risk_level\":\"banana\",\"confidence_score\":150}",
        obj |-> [approved |-> Bool(TRUE), status |-> Text("MAYBE"),
                 risk_level |-> Text("banana"), confidence_score |-> Float(150)]],
       [text |-> "{\"approved\":true,\"status\":\"APPROVED\",\"risk_level\":\"low\",\"reason\":\"r\",\"confidence_score\":\"high\"}",
        obj |-> [approved |-> Bool(TRUE), status |-> Text("APPROVED"),
                 risk_level |-> Text("low"), reason |-> Text("r"),
                 confidence_score |-> Text("high")]],
       [text |-> "{\"allowed\":true,\"risk_level\":\"banana\",\"reason\":\"ok\"}",
        obj |-> [allowed |-> Bool(TRUE), risk_level |-> Text("banana"),
                 reason |-> Text("ok")]],
       [text |-> "{\"allowed\":true,\"risk_level\":\"low\",\"reason\":\"ok\"}",
        obj |-> [allowed |-> Bool(TRUE), risk_level |-> Text("low"), reason |-> Text("ok")]],
       [text |-> "{\"allowed\":true,\"risk_level\":\"banana\"}",
        obj |-> [allowed |-> Bool(TRUE), risk_level |-> Text("banana")]],
       [text |-> "{\"is_fraud\":true,\"fraud_score\":90,\"risk_level\":\"high\",\"explanation\":\"e\",\"fraud_indicators\":\"card_testing\"}",
        obj |-> [is_fraud |-> Bool(TRUE), fraud_score |-> Float(90),
                 risk_level |-> Text("high"), explanation |-> Text("e"),
                 fraud_indicators |-> Text("card_testing")]],
       [text |-> "{\"is_fraud\":true,\"fraud_score\":90,\"risk_level\":\"high\",\"explanation\":\"e\",\"fraud_indicators\":7}",
        obj |-> [is_fraud |-> Bool(TRUE), fraud_score |-> Float(90),
                 risk_level |-> Text("high"), explanation |-> Text("e"),
                 fraud_indicators |-> Float(7)]],
       [text |-> "{\"is_fraud\":true,\"fraud_score\":90,\"risk_level\":\"high\",\"explanation\":\"e\",\"fraud_indicators\":0}",
        obj |-> [is_fraud |-> Bool(TRUE), fraud_score |-> Float(90),
                 risk_level |-> Text("high"), explanation |-> Text("e"),
                 fraud_indicators |-> Float(0)]],
       [text |-> "{\"is_fraud\":true,\"fraud_score\":90,\"risk_level\":\"high\",\"explanation\":\"e\",\"fraud_indicators\":false}",
        obj |-> [is_fraud |-> Bool(TRUE), fraud_score |-> Float(90),
                 risk_level |-> Text("high"), explanation |-> Text("e"),
                 fraud_indicators |-> Bool(FALSE)]],
       [text |-> "{\"is_fraud\":true,\"fraud_score\":90,\"risk_level\":\"high\",\"explanation\":\"e\",\"fraud_indicators\":\"\"}",
        obj |-> [is_fraud |-> Bool(TRUE), fraud_score |-> Float(90),
                 risk_level |-> Text("high"), explanation |-> Text("e"),
                 fraud_indicators |-> Text("")]] >>

json_loads(json_str) ==
    IF \E i \in 1..Len(JsonTexts) : JsonTexts[i].text = json_str
    THEN [decodes |-> TRUE,
          obj |-> JsonTexts[CHOOSE i \in 1..Len(JsonTexts) : JsonTexts[i].text = json_str].obj]
    ELSE [decodes |-> FALSE, obj |-> [none |-> Bool(FALSE)]]

\* result.get(key, default)
Get(obj, key, default) == IF key \in DOMAIN obj THEN obj[key] ELSE default

\* str(x) of a decoded JSON scalar
StrOf(x) ==
    IF x.type = "str" THEN x.text
    ELSE IF x.type = "bool" THEN (IF x.val = 1 THEN "True" ELSE "False")
    ELSE ToString(x.val)

\* a decoded object in the form ValidateAndNormalize reads; the decoded
\* texts of the model carry no JSON array
AsFraudObject(obj) ==
    [keys |-> DOMAIN obj,
     is_fraud |-> Truthy(Get(obj, "is_fraud", Bool(FALSE))),
     fraud_score |-> Get(obj, "fraud_score", Float(0)),
     risk_level |-> TextOf(Get(obj, "risk_level", Text(""))),
     explanation |-> TextOf(Get(obj, "explanation", Text(""))),
     confidence |-> Get(obj, "confidence", Float(0)),
     fraud_indicators |-> IF "fraud_indicators" \in DOMAIN obj
                          THEN Scalar(StrOf(obj.fraud_indicators),
                                      Truthy(obj.fraud_indicators))
                          ELSE List(<<>>),
     risk_factors |-> List(<<>>)]

\* FraudAnalyzer._parse_ai_response on the raw text
_parse_ai_response_text(response_text) ==
    LET loaded == json_loads(TrimToBraces(response_text))
    IN  _parse_ai_response([decodes |-> loaded.decodes, obj |-> AsFraudObject(loaded.obj)])

\* what a parser returns when it returns no verdict (None)
NoParse ==
    [success |-> FALSE, approved |-> Bool(FALSE), status |-> "", risk_level |-> "",
     reason |-> "", confidence_score |-> 0]

\* CreditScoring._parse_ai_response on the raw text.  The confidence score is
\* clamped with max(0, min(100, x)), which raises TypeError on a str.
CreditScoring_parse_ai_response(response_text) ==
    LET loaded == json_loads(TrimToBraces(response_text))
        result == loaded.obj
    IN  IF ~loaded.decodes THEN NoParse
        ELSE IF ~({"approved", "status", "risk_level", "reason"} \subseteq DOMAIN result)
        THEN NoParse
        ELSE IF "confidence_score" \in DOMAIN result /\ result.confidence_score.type = "str"
        THEN NoParse
        ELSE [success |-> TRUE,
              approved |-> result.approved,
              status |-> IF TextOf(result.status)
                               \in {"APPROVED", "CONDITIONAL_APPROVAL", "REJECTED"}
                         THEN TextOf(result.status) ELSE "REJECTED",
              risk_level |-> IF TextOf(result.risk_level) \in {"low", "medium", "high"}
                             THEN TextOf(result.risk_level) ELSE "high",
              reason |-> TextOf(result.reason),
              confidence_score |-> IF "confidence_score" \in DOMAIN result
                                   THEN Clamp100(result.confidence_score) ELSE 0]

\* LLMScreening._parse_screening_result on the raw text: every failure
\* answers with the verdict that does not allow the payment
_parse_screening_result(response_text) ==
    LET loaded == json_loads(TrimToBraces(response_text))
        result == loaded.obj
    IN  IF ~loaded.decodes
        THEN [allowed |-> FALSE, risk_level |-> "high",
              reason |-> "Invalid JSON response from LLM"]
        ELSE IF ~({"allowed", "risk_level", "reason"} \subseteq DOMAIN result)
        THEN [allowed |-> FALSE, risk_level |-> "high",
              reason |-> "Error parsing LLM response"]
        ELSE [allowed |-> Truthy(result.allowed),
              risk_level |-> IF TextOf(result.risk_level) \in {"low", "medium", "high"}
                             THEN TextOf(result.risk_level) ELSE "high",
              reason |-> TextOf(result.reason)]

\* the raw texts of the model: an object text between a prefix without '{'
\* and a suffix without '}', and texts that hold no object
Prefixes == {"", "Sure: ", "}} note: ", "\n "}

Suffixes == {"", " Hope it helps", " {see above"}

RawTexts ==
    {p \o JsonTexts[i].text \o s : p \in Prefixes, i \in 1..Len(JsonTexts), s \in Suffixes}
    \cup {"", "no json here", "{broken", "x}"}

\* ------------------------------------------------------------------------
\* Loan evaluation (loan_application_processing/credit_scoring.py).  Money
\* is in dollars and an interest rate is in hundredths of a percent.  A
\* ratio the code holds as a float percentage is the exact fraction
\* num / den.  Every application of the model asks for a loan_term of one
\* month, for which the payment formula
\*     L * (c * (1 + c)**n) / ((1 + c)**n - 1)
\* is L * (1 + c) with c the monthly rate.

\* random.uniform(0, w) as hundredths of the width w
UniformDraws == {0, 100}

\* CreditScoring._estimate_interest_rate; u is the draw of random.uniform
_estimate_interest_rate(credit_score, u) ==
    IF credit_score >= 750 THEN 350 + (100 * u) \div 100
    ELSE IF credit_score >= 700 THEN 450 + (150 * u) \div 100
    ELSE IF credit_score >= 650 THEN 600 + (200 * u) \div 100
    ELSE IF credit_score >= 600 THEN 800 + (300 * u) \div 100
    ELSE 1100 + (400 * u) \div 100

_calculate_employment_score(employment_years, employment_status) ==
    LET years == IF employment_years >= 5 THEN 40
                 ELSE IF employment_years >= 3 THEN 30
                 ELSE IF employment_years >= 2 THEN 20
                 ELSE IF employment_years >= 1 THEN 10
                 ELSE 0
        kind == IF employment_status = "Full-time" THEN 30
                ELSE IF employment_status = "Part-time" THEN 15
                ELSE IF employment_status = "Self-employed" THEN 20
                ELSE IF employment_status = "Unemployed" THEN 0 - 50
                ELSE 0
    IN  Min(100, Max(0, years + kind))

\* the percentage num / den
Ratio(num, den) == [num |-> num, den |-> den]

\* ratio <= percent
AtMost(ratio, percent) == ratio.num <= percent * ratio.den

\* CreditScoring._calculate_financial_metrics for a numeric application; the
\* first draw prices the monthly payment, the second is the reported rate.
\* total_monthly_debt is (existing_debt * 10000 + loan_amount * (120000 +
\* rate)) / 120000 and monthly_income is annual_income / 12.
_calculate_financial_metrics(application, u1, u2) ==
    LET annual_income == application.annual_income.val
        rate == _estimate_interest_rate(application.credit_score, u1)
    IN  [debt_to_income_ratio |->
             IF annual_income > 0
             THEN Ratio(application.existing_debt * 10000
                            + application.loan_amount * (120000 + rate),
                        100 * annual_income)
             ELSE Ratio(999, 1),
         loan_to_income_ratio |->
             IF annual_income > 0
             THEN Ratio(100 * application.loan_amount, annual_income)
             ELSE Ratio(999, 1),
         estimated_interest_rate |->
             _estimate_interest_rate(application.credit_score, u2),
         employment_stability_score |->
             _calculate_employment_score(application.employment_years,
                                         application.employment_status)]

\* the decision of _rule_based_evaluation from its total score
LoanStatus(total_score) ==
    IF total_score >= Pts(80) THEN "APPROVED"
    ELSE IF total_score >= Pts(65) THEN "CONDITIONAL_APPROVAL"
    ELSE "REJECTED"

\* CreditScoring._rule_based_evaluation
_rule_based_evaluation(application, financial_metrics) ==
    LET credit_score == application.credit_score
        debt_to_income == financial_metrics.debt_to_income_ratio
        annual_income == application.annual_income.val
        loan_to_income == financial_metrics.loan_to_income_ratio
        credit_component == IF credit_score >= 750 THEN 35
                            ELSE IF credit_score >= 700 THEN 28
                            ELSE IF credit_score >= 650 THEN 21
                            ELSE IF credit_score >= 600 THEN 14
                            ELSE 7
        dti_component == IF AtMost(debt_to_income, 30) THEN 25
                         ELSE IF AtMost(debt_to_income, 36) THEN 20
                         ELSE IF AtMost(debt_to_income, 43) THEN 15
                         ELSE IF AtMost(debt_to_income, 50) THEN 10
                         ELSE 0
        employment_component == financial_metrics.employment_stability_score * 20
        income_component == IF annual_income >= 100000 THEN 15
                            ELSE IF annual_income >= 75000 THEN 12
                            ELSE IF annual_income >= 50000 THEN 9
                            ELSE IF annual_income >= 30000 THEN 6
                            ELSE 3
        lti_component == IF AtMost(loan_to_income, 200) THEN 5
                         ELSE IF AtMost(loan_to_income, 300) THEN 3
                         ELSE IF AtMost(loan_to_income, 500) THEN 1
                         ELSE 0
        total_score == Pts(credit_component + dti_component + income_component
                               + lti_component) + employment_component
        status == LoanStatus(total_score)
        approved == status # "REJECTED"
    IN  [raised |-> FALSE,
         approved |-> approved,
         status |-> status,
         risk_level |-> IF status = "APPROVED" THEN "low"
                        ELSE IF status = "CONDITIONAL_APPROVAL" THEN "medium"
                        ELSE "high",
         has_total_score |-> TRUE,
         total_score |-> total_score,
         confidence_score |-> Min(Pts(95), total_score + Pts(10)),
         recommended_interest_rate |-> financial_metrics.estimated_interest_rate,
         recommended_loan_amount |-> IF approved THEN application.loan_amount ELSE 0,
         evaluation_method |-> "rule_based",
         financial_metrics |-> financial_metrics]

\* CreditScoring._combine_ai_and_metrics: the advisory verdict, with the
\* recommended terms taken from the metrics and the application where the
\* advisory names none (0 stands for a missing or non-positive value)
_combine_ai_and_metrics(ai, financial_metrics, application) ==
    [raised |-> FALSE,
     approved |-> ai.approved,
     status |-> ai.status,
     risk_level |-> ai.risk_level,
     has_total_score |-> FALSE,
     total_score |-> 0,
     confidence_score |-> ai.confidence_score,
     recommended_interest_rate |->
         IF ai.recommended_interest_rate <= 0
         THEN financial_metrics.estimated_interest_rate
         ELSE ai.recommended_interest_rate,
     recommended_loan_amount |->
         IF ai.recommended_loan_amount <= 0
         THEN application.loan_amount
         ELSE ai.recommended_loan_amount,
     evaluation_method |-> "ai_powered",
     financial_metrics |-> financial_metrics]

\* no evaluation was returned
NoEvaluation ==
    [raised |-> FALSE, approved |-> FALSE, status |-> "none", risk_level |-> "none",
     has_total_score |-> FALSE, total_score |-> 0, confidence_score |-> 0,
     recommended_interest_rate |-> 0, recommended_loan_amount |-> 0,
     evaluation_method |-> "none",
     financial_metrics |-> [debt_to_income_ratio |-> Ratio(0, 1),
                            loan_to_income_ratio |-> Ratio(0, 1),
                            estimated_interest_rate |-> 0,
                            employment_stability_score |-> 0]]

\* CreditScoring.evaluate_application with _get_ai_evaluation answering ai.
\* _create_evaluation_prompt formats annual_income with ':,.2f' outside any
\* try, so a str income raises out of the call.
evaluate_application(application, ai, u1, u2) ==
    LET financial_metrics == _calculate_financial_metrics(application, u1, u2)
    IN  IF FormatRaises(application.annual_income)
        THEN [NoEvaluation EXCEPT !.raised = TRUE]
        ELSE IF ai.success
        THEN _combine_ai_and_metrics(ai, financial_metrics, application)
        ELSE _rule_based_evaluation(application, financial_metrics)

\* the applications evaluated
LoanApplications ==
    [annual_income : {Float(0), Float(40000), Float(90000), NumericStr(90000)},
     loan_amount : {2240, 3000},
     existing_debt : {0, 6000},
     loan_term : {1},
     credit_score : {640, 720, 780},
     employment_years : {0, 1, 5},
     employment_status : {"Full-time", "Part-time", "Unemployed"}]

NoLoanApplication ==
    [annual_income |-> Float(0), loan_amount |-> 0, existing_debt |-> 0,
     loan_term |-> 1, credit_score |-> 0, employment_years |-> 0,
     employment_status |-> ""]

\* _get_ai_evaluation returned None
NoAiEvaluation ==
    [success |-> FALSE, approved |-> FALSE, status |-> "", risk_level |-> "",
     confidence_score |-> 0, recommended_interest_rate |-> 0,
     recommended_loan_amount |-> 0]

\* what the mocked _get_ai_evaluation answers
AiEvaluations ==
    {NoAiEvaluation}
    \cup [success : {TRUE}, approved : {TRUE}, status : {"APPROVED"},
          risk_level : {"low"}, confidence_score : {Pts(85)},
          recommended_interest_rate : {0, 500},
          recommended_loan_amount : {0, 2000}]

\* evaluations of one application that are compared
MaxEvaluations == 2

\* ------------------------------------------------------------------------
\* The state of one evaluation

VARIABLES
    pc,                \* where analyze_transaction stands
    transaction,       \* its argument
    rule_based_result, \* the rule verdict
    attempt,           \* requests.post calls made by _get_ai_analysis
    sleeps,            \* time.sleep(retry_delay) calls made
    seen200,           \* whether some call returned status 200
    ai_result,         \* what _get_ai_analysis returned
    final_result       \* what analyze_transaction returns

fraud_vars == <<pc, transaction, rule_based_result, attempt, sleeps, seen200,
                ai_result, final_result>>

\* ------------------------------------------------------------------------
\* The state of one TradeFinanceProcessingThread

VARIABLES
    trade_pc,           \* where run() stands
    application_data,   \* the application the thread was built with
    doc_results,        \* what verify_documents returned
    credit_results,     \* what assess_credit returned
    compliance_results, \* what check_compliance returned
    risk_results,       \* what analyze_risk returned
    final_decision      \* what make_final_decision returned

trade_vars == <<trade_pc, application_data, doc_results, credit_results,
                compliance_results, risk_results, final_decision>>

NoDocResults == [success |-> FALSE, score |-> Float(0), method |-> "none"]

NoCreditResults == [CreditErrorFallback EXCEPT !.method = "none"]

NoComplianceResults == [success |-> FALSE, compliance_score |-> 0, status |-> "none"]

NoRiskResults == [success |-> FALSE, risk_score |-> 0, risk_level |-> "none"]

NoFinalDecision == [decision |-> "none", final_score |-> 0, error |-> FALSE]

\* no trade finance thread is running
TradeIdle ==
    /\ trade_pc = "idle"
    /\ application_data = NoApplication
    /\ doc_results = NoDocResults
    /\ credit_results = NoCreditResults
    /\ compliance_results = NoComplianceResults
    /\ risk_results = NoRiskResults
    /\ final_decision = NoFinalDecision

\* ------------------------------------------------------------------------
\* The state of one call of a response parser

VARIABLES
    response_text,  \* the raw text the parser is called with
    parser,         \* the parser that was called
    parsed          \* what it returned

parse_vars == <<response_text, parser, parsed>>

\* no parser has been called
ParseIdle ==
    /\ response_text = ""
    /\ parser = "none"
    /\ parsed = NoParse

\* ------------------------------------------------------------------------
\* Repeated evaluation of one loan application by one CreditScoring

VARIABLES
    loan_data,       \* the application passed to evaluate_application
    ai_evaluation,   \* what the mocked _get_ai_evaluation returns
    evaluations      \* what evaluate_application returned, call by call

loan_vars == <<loan_data, ai_evaluation, evaluations>>

\* no loan application is being evaluated
LoanIdle ==
    /\ loan_data = NoLoanApplication
    /\ ai_evaluation = NoAiEvaluation
    /\ evaluations = <<>>

\* before the rule engine has run there is no rule verdict and no verdict
NoRuleResult == [ErrorVerdict EXCEPT !.analysis_method = "none"]

NoVerdict == RuleVerdictAs(NoRuleResult, "none")

\* ------------------------------------------------------------------------
\* Two evaluations on one FraudAnalyzer: the monitoring thread's and the
\* manually submitted transaction's

VARIABLES
    fraud_analyzer,  \* the attributes of the FraudAnalyzer both callers hold
    submitted,       \* the transaction each caller passes to analyze_transaction
    frames           \* the local variables of each analyze_transaction call

conc_vars == <<fraud_analyzer, submitted, frames>>

\* TransactionMonitoringThread.run and process_manual_transaction
Evaluators == {"monitor", "manual"}

\* FraudAnalyzer.__init__: the only assignments to attributes of self
NewFraudAnalyzer ==
    [max_retries |-> max_retries, fraud_patterns |-> fraud_patterns,
     high_amount |-> high_amount, very_high_amount |-> very_high_amount]

\* the locals of a call that has not started
NoFrame ==
    [pc |-> "idle", transaction |-> NoTransaction, now |-> NoTimestamp,
     rule_based_result |-> NoRuleResult, attempt |-> 0, received |-> <<>>,
     ai_result |-> NoAiResult, hash_seed |-> 0, final_result |-> NoVerdict]

\* no evaluation has been started on the analyzer
ConcIdle ==
    /\ fraud_analyzer = NewFraudAnalyzer
    /\ submitted = [e \in Evaluators |-> NoTransaction]
    /\ frames = [e \in Evaluators |-> NoFrame]

\* ------------------------------------------------------------------------
\* One call of LLMScreening.screen_payment

VARIABLES
    screen_pc,         \* where screen_payment stands
    screen_received,   \* the outcomes of its requests.post calls, in order
    screen_sleeps,     \* time.sleep(retry_delay) calls made
    screening_result   \* what screen_payment returned

screen_vars == <<screen_pc, screen_received, screen_sleeps, screening_result>>

NoScreeningResult == [allowed |-> FALSE, risk_level |-> "none", reason |-> ""]

\* no payment is being screened
ScreenIdle ==
    /\ screen_pc = "idle"
    /\ screen_received = <<>>
    /\ screen_sleeps = 0
    /\ screening_result = NoScreeningResult

\* ------------------------------------------------------------------------
\* The transaction monitoring thread and the window that starts and stops it

VARIABLES
    running,        \* TransactionMonitoringThread.running
    thread_pc,      \* where the monitoring thread stands
    gui_pc,         \* where the window's thread stands
    last_status,    \* what the last loop iteration reported
    monitored       \* transactions the thread saved, counted up to MaxMonitored

mon_vars == <<running, thread_pc, gui_pc, last_status, monitored>>

\* the window is open, the thread constructed and never started
MonIdle ==
    /\ running = FALSE
    /\ thread_pc = "not_started"
    /\ gui_pc = "idle"
    /\ last_status = "none"
    /\ monitored = 0

\* ------------------------------------------------------------------------
\* The payment system: the payments table and the clerk's windows

VARIABLES
    payments,       \* the rows of the payments table, by reference
    in_screening,   \* references whose PaymentThread has not finished
    view_buttons,   \* references whose row of the clerk's table has a View button
    windows         \* the ScreeningResultWindows, open or closed

pay_vars == <<payments, in_screening, view_buttons, windows>>

References == {"PAY1", "PAY2"}

MaxWindows == 2

NoPayment == [status |-> "none", screened |-> FALSE, is_high_risk |-> FALSE]

\* the database is empty and the clerk has no screening window
PayIdle ==
    /\ payments = [r \in References |-> NoPayment]
    /\ in_screening = {}
    /\ view_buttons = {}
    /\ windows = [w \in 1..MaxWindows |-> "closed"]

\* ------------------------------------------------------------------------
\* One run of the onboarding KYCAMLProcessor

VARIABLES
    onb_pc,              \* where KYCAMLProcessor.run stands
    checks,              \* the results of its five checks
    onboarding_decision  \* what make_final_decision returned

onb_vars == <<onb_pc, checks, onboarding_decision>>

NoCheck == [status |-> "none", score |-> 0]

NoChecks ==
    [doc |-> NoCheck, identity |-> NoCheck, address |-> NoCheck, aml |-> NoCheck,
     risk |-> [risk_level |-> "none", risk_score |-> 0]]

NoOnboardingDecision ==
    [decision |-> "none", overall_score |-> 0, risk_level |-> "none",
     restrictions |-> {}]

\* no application is being processed
OnbIdle ==
    /\ onb_pc = "idle"
    /\ checks = NoChecks
    /\ onboarding_decision = NoOnboardingDecision

\* ------------------------------------------------------------------------
\* All variables; what each part of the model leaves alone

vars ==
    <<fraud_vars, trade_vars, parse_vars, loan_vars, conc_vars, screen_vars,
      mon_vars, pay_vars, onb_vars>>

outside_fraud ==
    <<trade_vars, parse_vars, loan_vars, conc_vars, screen_vars, mon_vars,
      pay_vars, onb_vars>>

outside_trade ==
    <<fraud_vars, parse_vars, loan_vars, conc_vars, screen_vars, mon_vars,
      pay_vars, onb_vars>>

outside_parse ==
    <<fraud_vars, trade_vars, loan_vars, conc_vars, screen_vars, mon_vars,
      pay_vars, onb_vars>>

outside_loan ==
    <<fraud_vars, trade_vars, parse_vars, conc_vars, screen_vars, mon_vars,
      pay_vars, onb_vars>>

outside_conc ==
    <<fraud_vars, trade_vars, parse_vars, loan_vars, screen_vars, mon_vars,
      pay_vars, onb_vars>>

outside_screen ==
    <<fraud_vars, trade_vars, parse_vars, loan_vars, conc_vars, mon_vars,
      pay_vars, onb_vars>>

outside_mon ==
    <<fraud_vars, trade_vars, parse_vars, loan_vars, conc_vars, screen_vars,
      pay_vars, onb_vars>>

outside_pay ==
    <<fraud_vars, trade_vars, parse_vars, loan_vars, conc_vars, screen_vars,
      mon_vars, onb_vars>>

outside_onb ==
    <<fraud_vars, trade_vars, parse_vars, loan_vars, conc_vars, screen_vars,
      mon_vars, pay_vars>>

\* no fraud evaluation is running
FraudIdle ==
    /\ pc = "idle"
    /\ transaction = NoTransaction
    /\ rule_based_result = NoRuleResult
    /\ attempt = 0
    /\ sleeps = 0
    /\ seen200 = FALSE
    /\ ai_result = NoAiResult
    /\ final_result = NoVerdict

\* the status the monitoring thread and process_manual_transaction store
\* with a verdict: 'flagged' if is_fraud else 'approved'
TransactionStatus(fraud_result) ==
    IF fraud_result.is_fraud THEN "flagged" ELSE "approved"

\* a FraudAnalyzer before analyze_transaction is called
Init ==
    /\ FraudIdle /\ TradeIdle /\ ParseIdle /\ LoanIdle
    /\ ConcIdle /\ ScreenIdle /\ MonIdle
    /\ PayIdle
    /\ OnbIdle

\* analyze_transaction is called: the rule engine runs first
RuleBasedAnalysis ==
    /\ pc = "idle"
    /\ \E t \in Transactions, now \in Clock :
          /\ transaction' = t
          /\ rule_based_result' = _rule_based_analysis(t, now)
    /\ pc' = "rules_done"
    /\ UNCHANGED <<attempt, sleeps, seen200, ai_result, final_result>>
    /\ UNCHANGED outside_fraud

\* _create_fraud_analysis_prompt; an exception it raises leaves
\* analyze_transaction, which has no handler
CreatePrompt ==
    /\ pc = "rules_done"
    /\ pc' = IF PromptRaises(transaction, rule_based_result) THEN "raised" ELSE "prompted"
    /\ UNCHANGED <<transaction, rule_based_result, attempt, sleeps, seen200, ai_result,
                   final_result>>
    /\ UNCHANGED outside_fraud

MoreAttempts_off_by_one(made) == made <= max_retries

\* for attempt in range(self.max_retries): whether the loop has an iteration
\* left after `made` iterations
MoreAttempts(made) == made < max_retries

AttemptSucceeds_any200(resp) == resp.kind = "http" /\ resp.status = 200

\* whether the attempt that got resp returns a verdict from the loop
AttemptSucceeds(resp) ==
    /\ resp.kind = "http"
    /\ resp.status = 200
    /\ resp.has_response
    /\ _parse_ai_response(resp.text).success

SleepsAfter_every_failure(failed) == TRUE

\* if attempt < self.max_retries - 1: time.sleep(self.retry_delay), in each
\* of the three failure paths; `failed` counts the attempts failed before
SleepsAfter(failed) == failed < max_retries - 1

\* one iteration of the retry loop of _get_ai_analysis: the request, the
\* parse of a 200 response, and the sleep before the next iteration
Attempt ==
    /\ pc = "prompted"
    /\ MoreAttempts(attempt)
    /\ \E resp \in Responses :
          /\ attempt' = attempt + 1
          /\ seen200' = (seen200 \/ (resp.kind = "http" /\ resp.status = 200))
          /\ IF AttemptSucceeds(resp)
             THEN /\ ai_result' = _parse_ai_response(resp.text)
                  /\ sleeps' = sleeps
                  /\ pc' = "ai_done"
             ELSE /\ ai_result' = NoAiResult
                  /\ sleeps' = IF SleepsAfter(attempt) THEN sleeps + 1 ELSE sleeps
                  /\ pc' = IF MoreAttempts(attempt + 1) THEN "prompted" ELSE "ai_done"
    /\ UNCHANGED <<transaction, rule_based_result, final_result>>
    /\ UNCHANGED outside_fraud

\* the rest of analyze_transaction: merge, or fall back to the rule verdict
Finish ==
    /\ pc = "ai_done"
    /\ \E hash_seed \in HashSeeds :
          final_result' =
              IF ai_result.success
              THEN _combine_ai_and_rules(ai_result, rule_based_result, hash_seed)
              ELSE RuleVerdictAs(rule_based_result, "rule_based")
    /\ pc' = "returned"
    /\ UNCHANGED <<transaction, rule_based_result, attempt, sleeps, seen200, ai_result>>
    /\ UNCHANGED outside_fraud

Next == RuleBasedAnalysis \/ CreatePrompt \/ Attempt \/ Finish

Spec == Init /\ [][Next]_vars

\* ------------------------------------------------------------------------
\* TradeFinanceProcessingThread.run, step by step

\* TradeFinanceProcessingThread.__init__
TradeInit ==
    /\ FraudIdle
    /\ LoanIdle
    /\ ConcIdle
    /\ ScreenIdle
    /\ MonIdle
    /\ PayIdle
    /\ OnbIdle
    /\ trade_pc = "documents"
    /\ application_data \in Applications
    /\ doc_results = NoDocResults
    /\ credit_results = NoCreditResults
    /\ compliance_results = NoComplianceResults
    /\ risk_results = NoRiskResults
    /\ final_decision = NoFinalDecision
    /\ ParseIdle

\* Step 1: doc_results = self.verify_documents()
VerifyDocuments ==
    /\ trade_pc = "documents"
    /\ \E ai \in DocAiOutcomes, rules \in DocRuleDraws :
          doc_results' = verify_documents(ai, rules)
    /\ trade_pc' = "credit"
    /\ UNCHANGED <<application_data, credit_results, compliance_results, risk_results,
                   final_decision>>
    /\ UNCHANGED outside_trade

\* Step 2: credit_results = self.assess_credit()
AssessCredit ==
    /\ trade_pc = "credit"
    /\ \E resp \in TradeResponses :
          credit_results' = assess_credit(application_data, resp)
    /\ trade_pc' = "compliance"
    /\ UNCHANGED <<application_data, doc_results, compliance_results, risk_results,
                   final_decision>>
    /\ UNCHANGED outside_trade

\* Step 3: compliance_results = self.check_compliance()
CheckCompliance ==
    /\ trade_pc = "compliance"
    /\ \E draw \in ComplianceDraws : compliance_results' = check_compliance(draw)
    /\ trade_pc' = "risk"
    /\ UNCHANGED <<application_data, doc_results, credit_results, risk_results,
                   final_decision>>
    /\ UNCHANGED outside_trade

\* Step 4: risk_results = self.analyze_risk()
AnalyzeRisk ==
    /\ trade_pc = "risk"
    /\ \E draw \in RiskDraws : risk_results' = analyze_risk(draw)
    /\ trade_pc' = "decision"
    /\ UNCHANGED <<application_data, doc_results, credit_results, compliance_results,
                   final_decision>>
    /\ UNCHANGED outside_trade

\* Step 5: final_decision = self.make_final_decision(...)
MakeFinalDecision ==
    /\ trade_pc = "decision"
    /\ final_decision' =
          make_final_decision(doc_results, credit_results, compliance_results,
                              risk_results)
    /\ trade_pc' = "completed"
    /\ UNCHANGED <<application_data, doc_results, credit_results, compliance_results,
                   risk_results>>
    /\ UNCHANGED outside_trade

TradeNext ==
    VerifyDocuments \/ AssessCredit \/ CheckCompliance \/ AnalyzeRisk \/ MakeFinalDecision

TradeSpec == TradeInit /\ [][TradeNext]_vars

\* ------------------------------------------------------------------------
\* The response parsers, each called on a raw text

ParseInit ==
    /\ FraudIdle
    /\ LoanIdle
    /\ ConcIdle
    /\ ScreenIdle
    /\ MonIdle
    /\ PayIdle
    /\ OnbIdle
    /\ TradeIdle
    /\ response_text \in RawTexts
    /\ parser = "none"
    /\ parsed = NoParse

\* FraudAnalyzer._parse_ai_response(response_text)
ParseFraudResponse ==
    /\ parser = "none"
    /\ parser' = "fraud"
    /\ parsed' = _parse_ai_response_text(response_text)
    /\ UNCHANGED response_text
    /\ UNCHANGED outside_parse

\* CreditScoring._parse_ai_response(response_text)
ParseCreditResponse ==
    /\ parser = "none"
    /\ parser' = "credit"
    /\ parsed' = CreditScoring_parse_ai_response(response_text)
    /\ UNCHANGED response_text
    /\ UNCHANGED outside_parse

\* LLMScreening._parse_screening_result(response_text)
ParseScreeningResult ==
    /\ parser = "none"
    /\ parser' = "screening"
    /\ parsed' = _parse_screening_result(response_text)
    /\ UNCHANGED response_text
    /\ UNCHANGED outside_parse

ParseNext == ParseFraudResponse \/ ParseCreditResponse \/ ParseScreeningResult

ParseSpec == ParseInit /\ [][ParseNext]_vars

\* ------------------------------------------------------------------------
\* Loan evaluation: the same application is evaluated again and again with
\* the same advisory answer

LoanInit ==
    /\ FraudIdle /\ TradeIdle /\ ParseIdle /\ ConcIdle /\ ScreenIdle /\ MonIdle
    /\ PayIdle
    /\ OnbIdle
    /\ loan_data \in LoanApplications
    /\ ai_evaluation \in AiEvaluations
    /\ evaluations = <<>>

\* one call of evaluate_application; each call of _estimate_interest_rate
\* draws its own random number
EvaluateApplication ==
    /\ Len(evaluations) < MaxEvaluations
    /\ \E u1 \in UniformDraws, u2 \in UniformDraws :
          evaluations' = Append(evaluations,
                                evaluate_application(loan_data, ai_evaluation, u1, u2))
    /\ UNCHANGED <<loan_data, ai_evaluation>>
    /\ UNCHANGED outside_loan

LoanNext == EvaluateApplication

LoanSpec == LoanInit /\ [][LoanNext]_vars

\* ------------------------------------------------------------------------
\* analyze_transaction as a function of what the call meets: the clock, the
\* responses the endpoint gives to its attempts, and the hash seed

\* _get_ai_analysis on the responses its attempts get, after `made` attempts
RECURSIVE _get_ai_analysis(_, _)
_get_ai_analysis(responses, made) ==
    IF ~MoreAttempts(made) \/ responses = <<>> THEN NoAiResult
    ELSE IF AttemptSucceeds(Head(responses))
    THEN _parse_ai_response(Head(responses).text)
    ELSE _get_ai_analysis(Tail(responses), made + 1)

\* analyze_transaction run alone
analyze_transaction(t, now, responses, hash_seed) ==
    LET rule_result == _rule_based_analysis(t, now)
        ai == _get_ai_analysis(responses, 0)
    IN  IF PromptRaises(t, rule_result)
        THEN [raised |-> TRUE, verdict |-> NoVerdict]
        ELSE [raised |-> FALSE,
              verdict |-> IF ai.success
                          THEN _combine_ai_and_rules(ai, rule_result, hash_seed)
                          ELSE RuleVerdictAs(rule_result, "rule_based")]

\* ------------------------------------------------------------------------
\* Concurrent evaluations: each step of a call reads and writes the locals
\* of its own call and reads the attributes of the shared analyzer

\* the transactions and responses of the concurrent evaluations
ConcTransactions ==
    {t \in Transactions :
        /\ t.timestamp = NoTimestamp
        /\ t.transaction_type = "purchase"
        /\ ~t.is_suspicious_template
        /\ t.customer_risk_profile = "low"
        /\ \/ /\ t.amount \in {Float(50), NumericStr(50)}
              /\ t.merchant_category = "grocery"
              /\ t.location.type = "str" /\ t.location.chars = Str_NewYork
           \/ /\ t.amount = Float(9500)
              /\ t.merchant_category = "wire_transfer"
              /\ t.location.type = "str" /\ t.location.chars = Str_UnknownLocation}

ConcResponses ==
    {r \in Responses :
        \/ r.kind = "exception"
        \/ /\ r.text.decodes
           /\ r.text.obj = [BaseObject EXCEPT !.fraud_score = Float(100),
                                              !.is_fraud = TRUE]}

\* the locals of a call whose frames live on the instance, one set for all
Frame_on_instance(e) == frames["monitor"]

\* the locals of the call of evaluator e
Frame(e) == frames[e]

\* analyze_transaction is entered: rule engine and prompt
ConcBegin(e) ==
    /\ Frame(e).pc = "idle"
    /\ \E t \in ConcTransactions, now \in Clock :
          LET rule_result == _rule_based_analysis(t, now)
          IN  /\ submitted' = [submitted EXCEPT ![e] = t]
              /\ frames' = [frames EXCEPT ![e] =
                     [Frame(e) EXCEPT
                         !.transaction = t, !.now = now,
                         !.rule_based_result = rule_result,
                         !.pc = IF PromptRaises(t, rule_result)
                                THEN "raised" ELSE "prompted"]]
    /\ UNCHANGED fraud_analyzer
    /\ UNCHANGED outside_conc

\* one iteration of the retry loop of the call of e
ConcAttempt(e) ==
    /\ Frame(e).pc = "prompted"
    /\ Frame(e).attempt < fraud_analyzer.max_retries
    /\ \E resp \in ConcResponses :
          frames' = [frames EXCEPT ![e] =
              [Frame(e) EXCEPT
                  !.attempt = @ + 1,
                  !.received = Append(@, resp),
                  !.ai_result = IF AttemptSucceeds(resp)
                                THEN _parse_ai_response(resp.text) ELSE NoAiResult,
                  !.pc = IF AttemptSucceeds(resp)
                            \/ Frame(e).attempt + 1 >= fraud_analyzer.max_retries
                         THEN "ai_done" ELSE "prompted"]]
    /\ UNCHANGED <<fraud_analyzer, submitted>>
    /\ UNCHANGED outside_conc

\* the rest of the call of e: merge, or fall back to the rule verdict
ConcFinish(e) ==
    /\ Frame(e).pc = "ai_done"
    /\ \E hash_seed \in HashSeeds :
          frames' = [frames EXCEPT ![e] =
              [Frame(e) EXCEPT
                  !.hash_seed = hash_seed,
                  !.final_result =
                      IF Frame(e).ai_result.success
                      THEN _combine_ai_and_rules(Frame(e).ai_result,
                                                 Frame(e).rule_based_result, hash_seed)
                      ELSE RuleVerdictAs(Frame(e).rule_based_result, "rule_based"),
                  !.pc = "returned"]]
    /\ UNCHANGED <<fraud_analyzer, submitted>>
    /\ UNCHANGED outside_conc

ConcInit ==
    /\ FraudIdle /\ TradeIdle /\ ParseIdle /\ LoanIdle
    /\ ConcIdle /\ ScreenIdle /\ MonIdle
    /\ PayIdle
    /\ OnbIdle

ConcNext == \E e \in Evaluators : ConcBegin(e) \/ ConcAttempt(e) \/ ConcFinish(e)

ConcSpec == ConcInit /\ [][ConcNext]_vars

\* ------------------------------------------------------------------------
\* LLMScreening.screen_payment (20250207_bank_payment_cursor/llm_screening.py)
\* on the payment_data PaymentWindow.submit_payment builds, which carries
\* every key the prompt reads

\* what one requests.post call of screen_payment gives
ScreenResponses ==
    {[kind |-> "exception", status |-> 0, has_response |-> FALSE, text |-> ""],
     [kind |-> "http", status |-> 500, has_response |-> FALSE, text |-> ""],
     [kind |-> "http", status |-> 200, has_response |-> FALSE, text |-> ""]}
    \cup {[kind |-> "http", status |-> 200, has_response |-> TRUE, text |-> t] :
            t \in RawTexts}

\* the attempt got a 200 body with a 'response' text, which is parsed and
\* returned whatever it holds
Answered(resp) == resp.kind = "http" /\ resp.status = 200 /\ resp.has_response

ServiceError_fail_open(resp) ==
    [allowed |-> TRUE, risk_level |-> "medium", reason |-> "screening unavailable"]

\* the result the last attempt returns when it failed: non-200 status,
\* RequestException, or any other exception (a body without 'response')
ServiceError(resp) ==
    [allowed |-> FALSE,
     risk_level |-> "high",
     reason |-> IF resp.kind = "exception" THEN "LLM service connection error"
                ELSE IF resp.status # 200 THEN "LLM service error"
                ELSE "Unexpected error"]

ScreenInit ==
    /\ FraudIdle /\ TradeIdle /\ ParseIdle /\ LoanIdle /\ ConcIdle /\ MonIdle
    /\ PayIdle
    /\ OnbIdle
    /\ screen_pc = "calling"
    /\ screen_received = <<>>
    /\ screen_sleeps = 0
    /\ screening_result = NoScreeningResult

\* one iteration of the loop of screen_payment
ScreenAttempt ==
    /\ screen_pc = "calling"
    /\ Len(screen_received) < max_retries
    /\ \E resp \in ScreenResponses :
          /\ screen_received' = Append(screen_received, resp)
          /\ IF Answered(resp)
             THEN /\ screening_result' = _parse_screening_result(resp.text)
                  /\ screen_pc' = "returned"
                  /\ UNCHANGED screen_sleeps
             ELSE IF Len(screen_received) < max_retries - 1
             THEN /\ screen_sleeps' = screen_sleeps + 1
                  /\ UNCHANGED <<screen_pc, screening_result>>
             ELSE /\ screening_result' = ServiceError(resp)
                  /\ screen_pc' = "returned"
                  /\ UNCHANGED screen_sleeps
    /\ UNCHANGED outside_screen

ScreenNext == ScreenAttempt

\* every requests.post call has a timeout, so an iteration always ends
ScreenSpec == ScreenInit /\ [][ScreenNext]_vars /\ WF_vars(ScreenNext)

\* ------------------------------------------------------------------------
\* TransactionMonitoringThread.run / stop and FraudDetectionApp.start_monitoring
\* / stop_monitoring (fraud_detection_system/fraud_detection.py)

MaxMonitored == 3

\* QThread.isRunning(): true from start() until run() has returned
isRunning == thread_pc \notin {"not_started", "finished"}

MonInit ==
    /\ FraudIdle /\ TradeIdle /\ ParseIdle /\ LoanIdle /\ ConcIdle /\ ScreenIdle
    /\ MonIdle
    /\ PayIdle
    /\ OnbIdle

\* start_monitoring: QThread.start() makes the thread runnable; run() has
\* not executed its first statement yet
StartMonitoring ==
    /\ gui_pc = "idle"
    /\ ~isRunning
    /\ thread_pc' = "started"
    /\ UNCHANGED <<running, gui_pc, last_status, monitored>>
    /\ UNCHANGED outside_mon

\* run(), first statement: self.running = True
RunBegin ==
    /\ thread_pc = "started"
    /\ running' = TRUE
    /\ thread_pc' = "testing"
    /\ UNCHANGED <<gui_pc, last_status, monitored>>
    /\ UNCHANGED outside_mon

\* while self.running:
LoopTest ==
    /\ thread_pc = "testing"
    /\ thread_pc' = IF running THEN "processing" ELSE "finished"
    /\ UNCHANGED <<running, gui_pc, last_status, monitored>>
    /\ UNCHANGED outside_mon

\* the body of the loop up to its sleep: a transaction is generated,
\* analyzed, saved and reported, or an exception is reported
ProcessTransaction ==
    /\ thread_pc = "processing"
    /\ \/ \E is_fraud \in BOOLEAN :
             /\ last_status' = TransactionStatus([is_fraud |-> is_fraud])
             /\ monitored' = Min(monitored + 1, MaxMonitored)
       \/ /\ last_status' = "error"
          /\ UNCHANGED monitored
    /\ thread_pc' = "sleeping"
    /\ UNCHANGED <<running, gui_pc>>
    /\ UNCHANGED outside_mon

\* time.sleep(...) returns
SleepOver ==
    /\ thread_pc = "sleeping"
    /\ thread_pc' = "testing"
    /\ UNCHANGED <<running, gui_pc, last_status, monitored>>
    /\ UNCHANGED outside_mon

\* stop_monitoring up to its wait: stop() sets self.running = False
StopMonitoring ==
    /\ gui_pc = "idle"
    /\ isRunning
    /\ running' = FALSE
    /\ gui_pc' = "waiting"
    /\ UNCHANGED <<thread_pc, last_status, monitored>>
    /\ UNCHANGED outside_mon

\* QThread.wait() returns once run() has returned
WaitReturns ==
    /\ gui_pc = "waiting"
    /\ thread_pc = "finished"
    /\ gui_pc' = "idle"
    /\ UNCHANGED <<running, thread_pc, last_status, monitored>>
    /\ UNCHANGED outside_mon

ThreadStep == RunBegin \/ LoopTest \/ ProcessTransaction \/ SleepOver

MonNext == StartMonitoring \/ StopMonitoring \/ WaitReturns \/ ThreadStep

\* the started thread is scheduled, analysis and sleep end, and a wait on a
\* finished thread returns; the clicks on start and stop are the user's
MonSpec ==
    /\ MonInit
    /\ [][MonNext]_vars
    /\ WF_vars(ThreadStep)
    /\ WF_vars(WaitReturns)

\* ------------------------------------------------------------------------
\* PaymentSystem, BankClerkWindow and ScreeningResultWindow
\* (20250207_bank_payment_cursor/payment.py), Database (database.py)

PayInit ==
    /\ FraudIdle /\ TradeIdle /\ ParseIdle /\ LoanIdle
    /\ ConcIdle /\ ScreenIdle /\ MonIdle
    /\ PayIdle
    /\ OnbIdle

\* Database.update_payment_status: the row of the reference, if there is
\* one, gets the status
update_payment_status(rows, reference, status) ==
    IF rows[reference].status = "none"
    THEN rows
    ELSE [rows EXCEPT ![reference].status = status]

\* BankClerkWindow.load_payments: every PENDING row gets a View button; the
\* cell widget of a row that is not PENDING is left as it was
load_payments(rows) ==
    view_buttons \cup {r \in References : rows[r].status = "PENDING"}

\* PaymentSystem.process_payment on the payment a client submitted
ProcessPayment ==
    \E reference \in References :
        /\ payments[reference].status = "none"
        /\ payments' = [payments EXCEPT ![reference].status = "PENDING"]
        /\ in_screening' = in_screening \cup {reference}
        /\ UNCHANGED <<view_buttons, windows>>
        /\ UNCHANGED outside_pay

\* PaymentSystem.handle_screening_result on the result of a PaymentThread
HandleScreeningResult ==
    \E reference \in in_screening, risk_level \in {"low", "medium", "high"} :
        /\ in_screening' = in_screening \ {reference}
        /\ payments' = [payments EXCEPT
                           ![reference].screened = TRUE,
                           ![reference].is_high_risk = (risk_level = "high")]
        /\ view_buttons' = load_payments(payments')
        /\ UNCHANGED windows
        /\ UNCHANGED outside_pay

\* the clerk's Refresh button
Refresh ==
    /\ view_buttons' = load_payments(payments)
    /\ view_buttons' # view_buttons
    /\ UNCHANGED <<payments, in_screening, windows>>
    /\ UNCHANGED outside_pay

\* BankClerkWindow.view_payment: a click on a View button shows a new
\* ScreeningResultWindow next to the ones already shown
ViewPayment ==
    \E reference \in view_buttons, w \in 1..MaxWindows :
        /\ windows[w] = "closed"
        /\ payments[reference].status # "none"
        /\ windows' = [windows EXCEPT ![w] = reference]
        /\ UNCHANGED <<payments, in_screening, view_buttons>>
        /\ UNCHANGED outside_pay

\* ScreeningResultWindow.approve_payment
ApprovePayment ==
    \E w \in 1..MaxWindows :
        /\ windows[w] # "closed"
        /\ payments' = update_payment_status(payments, windows[w], "APPROVED")
        /\ windows' = [windows EXCEPT ![w] = "closed"]
        /\ view_buttons' = load_payments(payments')
        /\ UNCHANGED in_screening
        /\ UNCHANGED outside_pay

\* ScreeningResultWindow.reject_payment
RejectPayment ==
    \E w \in 1..MaxWindows :
        /\ windows[w] # "closed"
        /\ payments' = update_payment_status(payments, windows[w], "REJECTED")
        /\ windows' = [windows EXCEPT ![w] = "closed"]
        /\ view_buttons' = load_payments(payments')
        /\ UNCHANGED in_screening
        /\ UNCHANGED outside_pay

PayNext ==
    \/ ProcessPayment
    \/ HandleScreeningResult
    \/ Refresh
    \/ ViewPayment
    \/ ApprovePayment
    \/ RejectPayment

PaySpec == PayInit /\ [][PayNext]_vars

\* ------------------------------------------------------------------------
\* KYCAMLProcessor (customer_onboarding/onboarding.py); check scores are
\* points, the risk score is in hundredths of a point, the overall score of
\* make_final_decision in thousandths

\* status of a check: passed from pass_from, failed below fail_below
CheckStatus(score, pass_from, fail_below) ==
    IF score >= pass_from THEN "passed"
    ELSE IF score < fail_below THEN "failed"
    ELSE "review_required"

kyc_verify_documents(score) ==
    [status |-> CheckStatus(score, 70, 50), score |-> score]

verify_identity(score) ==
    [status |-> CheckStatus(score, 80, 60), score |-> score]

verify_address(score) ==
    [status |-> CheckStatus(score, 75, 50), score |-> score]

perform_aml_screening(score) ==
    [status |-> CheckStatus(score, 80, 60), score |-> score]

assess_risk(risk_score) ==
    [risk_level |-> IF risk_score < 2000 THEN "low"
                    ELSE IF risk_score < 4000 THEN "medium"
                    ELSE IF risk_score < 6000 THEN "high"
                    ELSE "very_high",
     risk_score |-> risk_score]

\* scores the checks can give: 100 less the deductions of the issues found
DocumentScores == {100, 80, 65, 40}

IdentityScores == {100, 85, 75, 50}

AddressScores == {100, 75, 60, 40}

AmlScores == {100, 80, 65, 50}

RiskScores == {750, 1750, 2750, 4750, 6750}

\* total_score of KYCAMLProcessor.make_final_decision, in thousandths of a point
TotalScore(doc_result, identity_result, address_result, aml_result, risk_result) ==
    doc_result.score * 250 + identity_result.score * 250
    + address_result.score * 200 + aml_result.score * 200
    + (10000 - risk_result.risk_score)

\* round(total_score, 2): thousandths to hundredths
RoundToHundredths(x) ==
    LET q == x \div 10
        r == x % 10
    IN  IF r > 5 THEN q + 1
        ELSE IF r < 5 THEN q
        ELSE IF q % 2 = 0 THEN q ELSE q + 1

Restrictions(aml_result, risk_result) ==
    (IF risk_result.risk_level = "high"
     THEN {"Enhanced monitoring", "Transaction limits"} ELSE {})
    \cup (IF aml_result.status = "review_required"
          THEN {"Periodic AML reviews"} ELSE {})

\* a decision that looks at the score before it looks at the failed checks
kyc_make_final_decision_score_first(doc_result, identity_result, address_result, aml_result, risk_result) ==
    LET total_score == TotalScore(doc_result, identity_result, address_result,
                                  aml_result, risk_result)
    IN  [decision |->
             IF total_score >= 80000
                /\ risk_result.risk_level \in {"low", "medium"}
             THEN "approved"
             ELSE IF "failed" \in {doc_result.status, identity_result.status,
                                   aml_result.status}
             THEN "rejected"
             ELSE IF total_score >= 60000 THEN "manual_review"
             ELSE "rejected",
         overall_score |-> RoundToHundredths(total_score),
         risk_level |-> risk_result.risk_level,
         restrictions |-> Restrictions(aml_result, risk_result)]

kyc_make_final_decision(doc_result, identity_result, address_result, aml_result, risk_result) ==
    LET critical_failures ==
            "failed" \in {doc_result.status, identity_result.status,
                          aml_result.status}
        total_score == TotalScore(doc_result, identity_result, address_result,
                                  aml_result, risk_result)
    IN  [decision |->
             IF critical_failures THEN "rejected"
             ELSE IF total_score >= 80000
                     /\ risk_result.risk_level \in {"low", "medium"}
             THEN "approved"
             ELSE IF total_score >= 60000 THEN "manual_review"
             ELSE "rejected",
         overall_score |-> RoundToHundredths(total_score),
         risk_level |-> risk_result.risk_level,
         restrictions |-> Restrictions(aml_result, risk_result)]

OnbInit ==
    /\ FraudIdle /\ TradeIdle /\ ParseIdle /\ LoanIdle
    /\ ConcIdle /\ ScreenIdle /\ MonIdle /\ PayIdle
    /\ onb_pc = "submitted"
    /\ checks = NoChecks
    /\ onboarding_decision = NoOnboardingDecision

\* run(), stages 1 to 5
RunChecks ==
    /\ onb_pc = "submitted"
    /\ \E d \in DocumentScores, i \in IdentityScores, a \in AddressScores,
          m \in AmlScores, r \in RiskScores :
          checks' = [doc |-> kyc_verify_documents(d),
                     identity |-> verify_identity(i),
                     address |-> verify_address(a),
                     aml |-> perform_aml_screening(m),
                     risk |-> assess_risk(r)]
    /\ onb_pc' = "checked"
    /\ UNCHANGED onboarding_decision
    /\ UNCHANGED outside_onb

\* run(), the final decision
KycMakeFinalDecision ==
    /\ onb_pc = "checked"
    /\ onboarding_decision' =
          kyc_make_final_decision(checks.doc, checks.identity, checks.address,
                              checks.aml, checks.risk)
    /\ onb_pc' = "decided"
    /\ UNCHANGED checks
    /\ UNCHANGED outside_onb

OnbNext == RunChecks \/ KycMakeFinalDecision

OnbSpec == OnbInit /\ [][OnbNext]_vars

\* ------------------------------------------------------------------------
\* Properties

\* rule_based_result keeps the verdict as _rule_based_analysis returned it
\* (the code relabels the same dict on the rule-only path)
RulesRan == pc # "idle"

RuleEngineFailed == RulesRan /\ rule_based_result.analysis_method = "error"

RuleEngineScored == RulesRan /\ rule_based_result.analysis_method = "rule_based"

Returned == pc = "returned"

AdvisoryAbsent == ~ai_result.success

RECURSIVE SumSeq(_)
SumSeq(q) == IF q = <<>> THEN 0 ELSE q[1] + SumSeq(Tail(q))

\* C1: for every feature map the fraud_score of the rule verdict lies in
\* [0,100]; where the engine scored, it is the sum of the rule contributions
\* (the score_breakdown), capped at 100.
C1_RuleScoreInRange ==
    RulesRan =>
        /\ rule_based_result.fraud_score >= 0
        /\ rule_based_result.fraud_score <= Pts(100)
        /\ RuleEngineScored =>
              rule_based_result.fraud_score
                  = Min(Pts(100), SumSeq(rule_based_result.score_breakdown))

\* C1 witness: the contributions add up to more than 100 and the score is 100
C1_Witness ==
    /\ RuleEngineScored
    /\ SumSeq(rule_based_result.score_breakdown) > Pts(100)
    /\ rule_based_result.fraud_score = Pts(100)

\* the tier function C2 states
SpecRiskTier(score) ==
    IF score < Pts(15) THEN "very_low"
    ELSE IF score < Pts(30) THEN "low"
    ELSE IF score < Pts(50) THEN "medium"
    ELSE IF score < Pts(80) THEN "high"
    ELSE "critical"

\* the tier function the rule engine has
CodeRiskTier(score) ==
    IF score < Pts(30) THEN "very_low"
    ELSE IF score < Pts(50) THEN "low"
    ELSE IF score < Pts(80) THEN "medium"
    ELSE "high"

\* C2 as stated: the risk tier of a rule verdict is very_low below 15, low in
\* [15,30), medium in [30,50), high in [50,80) and critical in [80,100].
C2_Original ==
    RuleEngineScored =>
        rule_based_result.risk_level = SpecRiskTier(rule_based_result.fraud_score)

\* C2 amended: the risk tier of a rule verdict is very_low below 30, low in
\* [30,50), medium in [50,80) and high in [80,100]; it is never critical.
C2_RuleTierThresholds ==
    RulesRan =>
        /\ rule_based_result.risk_level = CodeRiskTier(rule_based_result.fraud_score)
        /\ rule_based_result.risk_level # "critical"

\* C2 witness: a rule verdict that sits on the cut point 30
C2_Witness ==
    /\ RuleEngineScored
    /\ rule_based_result.fraud_score = Pts(30)
    /\ rule_based_result.risk_level = "low"

\* C3 as stated: an advisory-enhanced verdict with combined score s has the
\* tier the rule engine gives to a rule score s.
C3_SharedThresholds ==
    (Returned /\ final_result.analysis_method = "ai_enhanced") =>
        final_result.risk_level = RuleRiskLevel(final_result.fraud_score)

\* C4 as stated: when the advisory verdict is present, the final score is
\* advisory.score * 0.6 + rule.score * 0.4.
C4_Original ==
    (Returned /\ ai_result.success) =>
        final_result.fraud_score * 10
            = ai_result.fraud_score * 6 + rule_based_result.fraud_score * 4

\* C4 amended: when the advisory verdict is present and its indicator and
\* risk-factor lists hold hashable elements only, the final score is
\* advisory.score * 0.6 + rule.score * 0.4; when one of them holds an
\* unhashable element the merge fails and the final verdict is the rule
\* verdict, with the rule score, labelled rule_based_fallback.
C4_WeightedScore ==
    (Returned /\ ai_result.success) =>
        IF Unhashable \notin
               Range(ai_result.fraud_indicators) \cup Range(ai_result.risk_factors)
        THEN /\ final_result.fraud_score * 10
                  = ai_result.fraud_score * 6 + rule_based_result.fraud_score * 4
             /\ final_result.analysis_method = "ai_enhanced"
        ELSE /\ final_result.fraud_score = rule_based_result.fraud_score
             /\ final_result.analysis_method = "rule_based_fallback"

\* C4 witness: a merged verdict whose two scores differ
C4_Witness ==
    /\ Returned
    /\ ai_result.success
    /\ final_result.analysis_method = "ai_enhanced"
    /\ ai_result.fraud_score = Pts(100)
    /\ rule_based_result.fraud_score = Pts(30)
    /\ final_result.fraud_score = Pts(72)

\* C5 as stated: whenever the advisory path yields no usable verdict, the
\* verdict returned is labelled rule_based and its confidence equals
\* min(rule.score + 10, 95), hence is at most 95.
C5_RuleOnlyConfidence ==
    (Returned /\ AdvisoryAbsent) =>
        /\ final_result.analysis_method = "rule_based"
        /\ final_result.fraud_score = rule_based_result.fraud_score
        /\ final_result.confidence
              = Min(rule_based_result.fraud_score + Pts(10), Pts(95))
        /\ final_result.confidence <= Pts(95)

\* C6: when every attempt fails by transport error, timeout or non-2xx
\* status, the advisory client has made exactly 3 attempts when it gives up,
\* never more, and the evaluation ends with a rule_based verdict.
C6_ExactlyThreeAttempts ==
    /\ attempt <= 3
    /\ (pc \in {"ai_done", "returned"} /\ ~seen200) => attempt = 3
    /\ (Returned /\ ~seen200) => final_result.analysis_method = "rule_based"

\* C6 witness: an evaluation that returned after three attempts none of
\* which got a 200 response
C6_Witness ==
    /\ Returned
    /\ ~seen200
    /\ attempt = 3
    /\ sleeps = 2
    /\ final_result.analysis_method = "rule_based"

C8_NeverRaises == pc # "raised"

\* C9 as stated: when neither the rule engine nor the advisory path gave a
\* usable verdict, the verdict returned has risk tier high.
C9_ErrorFallbackIsHigh ==
    (Returned /\ RuleEngineFailed /\ AdvisoryAbsent) =>
        final_result.risk_level = "high"

\* C10 as stated: the method of the verdict returned is the error label
\* exactly when both the rule engine and the advisory path failed; after a
\* rule-engine fault it is never rule_based or ai_enhanced.
C10_ErrorFallbackLabel ==
    Returned =>
        /\ (final_result.analysis_method = "error")
              <=> (RuleEngineFailed /\ AdvisoryAbsent)
        /\ RuleEngineFailed =>
              final_result.analysis_method \notin {"rule_based", "ai_enhanced"}

\* C11: in every verdict analyze_transaction returns, rule-only or
\* advisory-enhanced, the indicator list is non-empty whenever the risk tier
\* is high or critical.
C11_HighTierHasIndicators ==
    (Returned /\ final_result.risk_level \in {"high", "critical"}) =>
        final_result.fraud_indicators # <<>>

\* C11 witness: a critical advisory-enhanced verdict whose advisory side
\* supplied no indicator at all
C11_Witness ==
    /\ Returned
    /\ final_result.analysis_method = "ai_enhanced"
    /\ final_result.risk_level = "critical"
    /\ ai_result.fraud_indicators = <<>>
    /\ final_result.fraud_indicators # <<>>

\* the credit step and the whole run of the trade finance thread are over
CreditAssessed == trade_pc \in {"compliance", "risk", "decision", "completed"}

TradeCompleted == trade_pc = "completed"

InRange(score) == 0 <= score /\ score <= Pts(100)

\* C12 as stated: every score a verdict carries lies in [0,100]: the score of
\* a fraud verdict, the credit score of the trade finance assessment and the
\* final score of the trade finance decision, whatever score the advisory gave.
C12_ScoresInRange ==
    /\ Returned => InRange(final_result.fraud_score)
    /\ CreditAssessed => InRange(credit_results.credit_score)
    /\ TradeCompleted => InRange(final_decision.final_score)

\* the object texts of the model that a parser's required fields are not all in
LacksField(i, fields) == ~(fields \subseteq DOMAIN JsonTexts[i].obj)

\* C13: the fraud parser and the credit parser return no verdict (None), not
\* a partially filled or coerced one, whenever the decoded object lacks a
\* required field, whatever the other fields hold (out-of-range score,
\* out-of-set risk level) and whatever text surrounds the object.
C13_MissingFieldFails ==
    \A i \in 1..Len(JsonTexts) :
        Contains(JsonTexts[i].text, response_text) =>
            /\ (parser = "fraud" /\ LacksField(i, required_fields)) => parsed = NoAiResult
            /\ (parser = "credit"
                    /\ LacksField(i, {"approved", "status", "risk_level", "reason"}))
                  => parsed = NoParse

\* C13 witness: the fraud parser was called on a text whose object has a
\* score of 150 and an unknown risk level but no explanation, and returned None
C13_Witness ==
    /\ parser = "fraud"
    /\ response_text = "Sure: " \o JsonTexts[4].text \o " Hope it helps"
    /\ parsed = NoAiResult

\* C14 as stated: for a raw text with any text before the first '{' and
\* after the last '}' whose object has every required field, the fraud parser
\* succeeds, a score outside [0,100] is clamped (150 becomes 100), a risk
\* level outside the allowed set is replaced by the default, and the
\* explanation is returned unchanged.
C14_TolerantParse ==
    \A i \in 1..Len(JsonTexts) :
        (/\ parser = "fraud"
         /\ \E p \in Prefixes, x \in Suffixes : response_text = p \o JsonTexts[i].text \o x
         /\ ~LacksField(i, required_fields)) =>
            LET obj == JsonTexts[i].obj
            IN  /\ parsed.success
                /\ InRange(parsed.fraud_score)
                /\ obj.fraud_score = Float(150) => parsed.fraud_score = Pts(100)
                /\ parsed.risk_level =
                       IF obj.risk_level.text \in valid_risk_levels
                       THEN obj.risk_level.text ELSE "medium"
                /\ parsed.explanation = obj.explanation.text

\* the required fields of the parser that was called
RequiredBy(which) ==
    IF which = "fraud" THEN required_fields
    ELSE IF which = "credit" THEN {"approved", "status", "risk_level", "reason"}
    ELSE {"allowed", "risk_level", "reason"}

\* C15 as stated: in every response parser a risk level outside the allowed
\* set is coerced to high, never to a lower tier, and the parse still succeeds.
C15_UnknownTierIsHigh ==
    \A i \in 1..Len(JsonTexts) :
        (/\ parser # "none"
         /\ \E p \in Prefixes, x \in Suffixes : response_text = p \o JsonTexts[i].text \o x
         /\ ~LacksField(i, RequiredBy(parser))
         /\ JsonTexts[i].obj.risk_level.text = "banana") =>
            /\ parsed.risk_level = "high"
            /\ parser \in {"fraud", "credit"} => parsed.success
            /\ parser = "screening" => parsed.reason = JsonTexts[i].obj.reason.text

\* C16 as stated: in an advisory-enhanced verdict the indicators are the
\* union of the advisory and the rule indicators, each once, and the risk
\* factors are the advisory factors in their order followed by the rule
\* factors in their order.
C16_MergedListOrder ==
    (Returned /\ final_result.analysis_method = "ai_enhanced") =>
        /\ Range(final_result.fraud_indicators)
              = Range(ai_result.fraud_indicators) \cup Range(rule_based_result.fraud_indicators)
        /\ Cardinality(Range(final_result.fraud_indicators))
              = Len(final_result.fraud_indicators)
        /\ final_result.risk_factors
              = Dedup(ai_result.risk_factors \o rule_based_result.risk_factors)

\* C17 as stated: the rule engine never reports an error: for every feature
\* map, also one with an amount that is no number or a location that is no
\* string, it returns a scored verdict (the affected rules contributing 0).
C17_RuleEngineTotal ==
    RulesRan =>
        /\ rule_based_result.analysis_method = "rule_based"
        /\ "analysis_error" \notin Range(rule_based_result.fraud_indicators)
        /\ Len(rule_based_result.score_breakdown) = 7

\* C18 as stated: the rule verdict is a function of the feature map alone:
\* the verdict a call of _rule_based_analysis returns is the verdict the
\* call returns for the same feature map at every other wall-clock time.
C18_RuleEnginePure ==
    [][pc = "idle" =>
          \A now \in Clock : rule_based_result' = _rule_based_analysis(transaction', now)]_vars

\* what a loan evaluation decides: decision, risk tier, score and the
\* recommended terms (the timestamp is left out)
Terms(e) ==
    <<e.raised, e.approved, e.status, e.risk_level, e.has_total_score,
      e.total_score, e.recommended_interest_rate, e.recommended_loan_amount>>

\* C19: evaluating the same application twice with the same advisory outcome
\* yields the same decision, risk tier, score and recommended terms
C19_Idempotent ==
    \A i \in DOMAIN evaluations : \A j \in DOMAIN evaluations :
        Terms(evaluations[i]) = Terms(evaluations[j])

\* the threshold function of a score alone; one_point is the unit of score
ThresholdDecision(score, one_point) ==
    IF score >= 80 * one_point THEN "approved"
    ELSE IF score >= 65 * one_point THEN "conditional_approval"
    ELSE IF score >= 50 * one_point THEN "manual_review"
    ELSE "rejected"

\* the trade finance thread has decided, and not in its error fallback
Decided == TradeCompleted /\ ~final_decision.error

\* C20 as stated: the decision is the threshold function of the final score
\* alone (80 approve, 65 conditional approval, 50 manual review, else reject)
\* for every final score in [0,100] outside the error fallback
C20_Original ==
    (Decided /\ InRange(final_decision.final_score))
        => final_decision.decision
               = ThresholdDecision(final_decision.final_score, Pts(1))

\* C20: the trade finance decision is the threshold decision of the final
\* score (as computed, before it is rounded for the report) lowered by the
\* compliance status: approval needs the status compliant, conditional
\* approval needs compliant or conditional, and an application that misses
\* the status its score would earn goes to manual review; below 50 it is
\* rejected whatever the status
C20_ComplianceGatedDecision ==
    Decided =>
        LET status == compliance_results.status
            earned == ThresholdDecision(UnroundedFinal(doc_results, credit_results,
                                                       compliance_results, risk_results),
                                        Pts(1) * 100)
            allowed == CASE status = "compliant" -> {"approved", "conditional_approval"}
                         [] status = "conditional" -> {"conditional_approval"}
                         [] OTHER -> {}
        IN  final_decision.decision =
                IF earned \in allowed \/ earned \in {"manual_review", "rejected"}
                THEN earned
                ELSE IF earned = "approved" /\ "conditional_approval" \in allowed
                THEN "conditional_approval"
                ELSE "manual_review"

\* an application that scores 80 or more is not approved because its
\* compliance status is only conditional
C20_Witness ==
    /\ Decided
    /\ final_decision.final_score >= Pts(80)
    /\ InRange(final_decision.final_score)
    /\ compliance_results.status = "conditional"
    /\ final_decision.decision = "conditional_approval"

\* the feature map of scenario B; the keys it leaves out have the values
\* the rules treat like a missing key
ScenarioB ==
    /\ transaction.amount = Float(9500)
    /\ transaction.merchant_category = "wire_transfer"
    /\ transaction.location = [type |-> "str", chars |-> Str_UnknownLocation]
    /\ transaction.transaction_type = "purchase"
    /\ transaction.timestamp = NoTimestamp
    /\ ~transaction.is_suspicious_template
    /\ transaction.customer_risk_profile = "low"

\* C21: the verdict of scenario B has risk tier high or critical, is not
\* approved, and its indicators include the structured-amount tag and a
\* wire-transfer tag
C21_ScenarioB ==
    (Returned /\ ScenarioB) =>
        /\ final_result.risk_level \in {"high", "critical"}
        /\ TransactionStatus(final_result) # "approved"
        /\ "structured_amount" \in Range(final_result.fraud_indicators)
        /\ "wire_transfer" \in Range(final_result.fraud_indicators)

\* the feature map of scenario A, at any time of any day
ScenarioA ==
    /\ transaction.amount = Float(50)
    /\ transaction.merchant_category = "grocery"
    /\ transaction.location = [type |-> "str", chars |-> Str_NewYork]
    /\ transaction.transaction_type = "purchase"
    /\ ~transaction.is_suspicious_template
    /\ transaction.customer_risk_profile = "low"

LowAndApproved ==
    /\ final_result.risk_level \in {"very_low", "low"}
    /\ TransactionStatus(final_result) = "approved"

\* C22 as stated: the verdict of scenario A has tier very_low or low and is
\* approved, rule-only or advisory-enhanced, for every advisory score
C22_Original == (Returned /\ ScenarioA) => LowAndApproved

\* C22: the rule-only verdict of scenario A is very_low and approved at
\* every time of day and day of week; the advisory-enhanced verdict has
\* tier very_low or low and is approved exactly when
\* 0.6 * advisory score + 0.4 * rule score is below 50
C22_ScenarioA ==
    (Returned /\ ScenarioA) =>
        IF final_result.analysis_method = "ai_enhanced"
        THEN LowAndApproved
                 <=> 6 * ai_result.fraud_score + 4 * rule_based_result.fraud_score
                         < 10 * Pts(50)
        ELSE /\ final_result.risk_level = "very_low"
             /\ TransactionStatus(final_result) = "approved"

\* scenario A with an advisory score of 100: the verdict is medium and flagged
C22_Witness ==
    /\ Returned
    /\ ScenarioA
    /\ final_result.analysis_method = "ai_enhanced"
    /\ ai_result.fraud_score = Pts(100)
    /\ final_result.risk_level = "medium"
    /\ TransactionStatus(final_result) = "flagged"

\* C23: every evaluation runs the rule engine, and an advisory verdict is
\* merged with a rule verdict, never returned on its own: every loan
\* evaluation that returns carries the total score of _rule_based_evaluation
C23_RuleEngineAlwaysRuns ==
    \A i \in DOMAIN evaluations :
        evaluations[i].raised \/ evaluations[i].has_total_score

\* C24: the two concurrent evaluations share no mutable state: the analyzer
\* is never written, and in every interleaving the outcome of each call is
\* the outcome analyze_transaction has when it runs alone on the call's own
\* transaction with the clock, responses and hash seed the call met
C24_Isolation ==
    /\ fraud_analyzer = NewFraudAnalyzer
    /\ \A e \in Evaluators :
          LET f == frames[e]
              alone == analyze_transaction(submitted[e], f.now, f.received,
                                           f.hash_seed)
          IN  /\ f.pc = "returned" => ~alone.raised /\ f.final_result = alone.verdict
              /\ f.pc = "raised" => alone.raised

\* both calls were in flight together and returned different verdicts
C24_Witness ==
    /\ frames["monitor"].pc = "returned"
    /\ frames["manual"].pc = "returned"
    /\ submitted["monitor"] # submitted["manual"]
    /\ frames["monitor"].final_result.analysis_method = "ai_enhanced"
    /\ frames["manual"].final_result.analysis_method = "rule_based"
    /\ frames["manual"].attempt = max_retries
    /\ frames["monitor"].attempt = 1

\* the object the fraud parser decoded from the raw text
Decoded == json_loads(TrimToBraces(response_text))

\* C25: a fraud_indicators field that arrives as a scalar is wrapped into
\* the single-element list of that scalar, whatever the scalar is
C25_ScalarWrapped ==
    (/\ parser = "fraud"
     /\ Decoded.decodes
     /\ "fraud_indicators" \in DOMAIN Decoded.obj
     /\ parsed.success)
        => parsed.fraud_indicators = <<StrOf(Decoded.obj.fraud_indicators)>>

\* C26: a delay is taken after every failed attempt that another attempt
\* follows and never after the final attempt: while the loop runs there are
\* as many delays as failed attempts, and when it is over there is one delay
\* less than attempts, so max_retries - 1 delays when all attempts failed
C26_BackoffBetweenAttempts ==
    /\ (pc = "prompted") => sleeps = attempt
    /\ (pc \in {"ai_done", "returned"}) => sleeps = attempt - 1
    /\ (pc \in {"ai_done", "returned"} /\ AdvisoryAbsent)
           => attempt = max_retries /\ sleeps = max_retries - 1

\* all attempts failed, one of them on a 200 response, and the loop is over
C26_Witness ==
    /\ pc = "ai_done"
    /\ AdvisoryAbsent
    /\ seen200
    /\ attempt = max_retries
    /\ sleeps = max_retries - 1

\* the text of a 200 response does not decode, or lacks a required field
Unusable(text) ==
    LET loaded == json_loads(TrimToBraces(text))
    IN  ~loaded.decodes
        \/ ~({"allowed", "risk_level", "reason"} \subseteq DOMAIN loaded.obj)

FailedClosed ==
    /\ ~screening_result.allowed
    /\ screening_result.risk_level = "high"

\* the last outcome screen_payment received
LastReceived == screen_received[Len(screen_received)]

\* C27, the result: when all three attempts failed, or a 200 response
\* carried a text that does not decode or lacks a required field, the
\* returned result has allowed = False and risk_level = 'high'
C27_ReturnsFailClosed ==
    screen_pc = "returned" =>
        /\ ~Answered(LastReceived) =>
              Len(screen_received) = max_retries /\ FailedClosed
        /\ (Answered(LastReceived) /\ Unusable(LastReceived.text)) => FailedClosed

\* C27: screen_payment fails closed: it always returns a result, and the
\* result does not allow the payment and is high risk whenever every
\* attempt failed or the answer was unusable
C27_FailsClosed == <>(screen_pc = "returned") /\ []C27_ReturnsFailClosed

\* three failed attempts of three kinds, and the fail-closed result
C27_Witness ==
    /\ screen_pc = "returned"
    /\ Len(screen_received) = max_retries
    /\ screen_received[1].kind = "exception"
    /\ screen_received[2].status = 500
    /\ screen_received[3].status = 200 /\ ~screen_received[3].has_response
    /\ screen_sleeps = max_retries - 1
    /\ FailedClosed

\* C28: whenever stop_monitoring is invoked while the monitoring thread is
\* running, the loop eventually exits and the wait on the thread returns,
\* wherever the thread stood when stop() ran
C28_StopTerminates ==
    (gui_pc = "waiting") ~> (thread_pc = "finished" /\ gui_pc = "idle")

\* stop() ran before run() made its start-up assignment, which then put the
\* flag back: the loop runs on while the window waits
C28_StopOverwritten ==
    /\ gui_pc = "waiting"
    /\ running
    /\ thread_pc = "processing"

Terminal == {"APPROVED", "REJECTED"}

\* C29: a payment's status is terminal once decided: no later step, clerk
\* action or screening-result delivery, changes a status that is APPROVED or
\* REJECTED, and a screening-result delivery changes no status at all
C29_TerminalStatus ==
    [][/\ \A r \in References :
             payments[r].status \in Terminal =>
                 payments'[r].status = payments[r].status
       /\ HandleScreeningResult =>
             \A r \in References : payments'[r].status = payments[r].status
      ]_vars

\* a second window on a payment that the first window already decided
C29_StaleWindow ==
    \E w \in 1..MaxWindows :
        /\ windows[w] # "closed"
        /\ payments[windows[w]].status \in Terminal

\* document verification, identity verification or AML screening failed
CriticalFailure ==
    "failed" \in {checks.doc.status, checks.identity.status, checks.aml.status}

\* C30: the final decision is 'rejected' whenever document verification,
\* identity verification or AML screening failed, whatever the overall
\* score and the risk level; 'approved' is returned only when none of them
\* failed, the overall score is at least 80 and the risk level is low or
\* medium
C30_CriticalFailureRejects ==
    onb_pc = "decided" =>
        /\ CriticalFailure => onboarding_decision.decision = "rejected"
        /\ onboarding_decision.decision = "approved" =>
              /\ ~CriticalFailure
              /\ onboarding_decision.overall_score >= 8000
              /\ checks.risk.risk_level \in {"low", "medium"}

\* a failed document check rejected with a score and a risk level that
\* would otherwise approve
C30_Witness ==
    /\ onb_pc = "decided"
    /\ checks.doc.status = "failed"
    /\ checks.identity.status = "passed"
    /\ checks.aml.status = "passed"
    /\ onboarding_decision.overall_score >= 8000
    /\ checks.risk.risk_level = "low"
    /\ onboarding_decision.decision = "rejected"

====
